---- MODULE Spec2Model ----
(***************************************************************************)
(* A model of the MCP marketplace adapters: the auth resolvers             *)
(* (create*Service), the Shopify store-domain normalisation, and the       *)
(* provider wrapper methods of the Shopify, Drive, Docs and Gmail          *)
(* services with the envelopes they return and the requests they issue.    *)
(*                                                                         *)
(* JavaScript strings whose characters matter (store names) are sequences  *)
(* of one-character strings; strings built by template literals are TLA+   *)
(* strings joined with \o; `undefined` is the value Undef.                 *)
(***************************************************************************)
EXTENDS Integers, Sequences, FiniteSets, TLC

VARIABLES
    auth,       \* the credential context handed to the resolver called last
    res,        \* what that resolver did: a service, an {error} object, or a throw
    domIn,      \* the argument of the last normalizeShopifyDomain call
    domOut,     \* its result: [ok |-> TRUE, v |-> domain] or [ok |-> FALSE, err |-> message]
    domGen,     \* how many times the result has been fed back as the argument
    call,       \* the wrapper method invoked last, with its request
    sent,       \* the provider requests that invocation issued, in order
    env,        \* the envelope it returned (NoEnv while none)
    outcome,    \* "idle" | "running" | "returned" | "threw"
    inflight,   \* listCollections: the fetches issued and not yet settled
    settled,    \* listCollections: the fetch results received so far
    userEmail,  \* GmailService.userEmail of the service instance in use
    validation, \* the last validateEmail call: its argument and what it returned
    header,     \* the last encodeEmailHeader call: its argument and what it returned
    message,    \* the last createEmailMessage call: its arguments and what it built
    relay,      \* the call relay wrapper: its cached client and its tool invocations
    handler,    \* one invocation of a tool handler, from its resolver to its reply
    raw,        \* the last message encoded for the send call, and its raw value
    standalone  \* the invocations of the standalone Gmail server's tools

authVars == <<auth, res>>
domVars  == <<domIn, domOut, domGen>>
opVars   == <<call, sent, env, outcome, inflight, settled, userEmail>>
\* the state of the components modelled on their own
otherVars == <<validation, header, message, relay, handler, raw, standalone>>
vars     == <<auth, res, domIn, domOut, domGen, call, sent, env, outcome,
              inflight, settled, userEmail, validation, header, message, relay, handler, raw, standalone>>

\* JavaScript's undefined, for string-valued fields.
Undef == "<undefined>"

\* !x for a string-valued field: undefined and '' are falsy.
Truthy(x) == x # Undef /\ x # ""

-----------------------------------------------------------------------------
(* Character sequences *)

Whitespace == {" ", "\t"}

AlphaNum == {"a", "b", "c", "d", "f", "h", "i", "m", "o", "p", "s", "t", "y", "A", "1"}

MyshopifySuffix == <<".", "m", "y", "s", "h", "o", "p", "i", "f", "y", ".", "c", "o", "m">>
HttpPrefix  == <<"h", "t", "t", "p", ":", "/", "/">>
HttpsPrefix == <<"h", "t", "t", "p", "s", ":", "/", "/">>

\* The undefined store name (no header, no metadata name): not a character sequence.
NoName == <<"<undefined>">>

StartsWith(s, p) == Len(s) >= Len(p) /\ SubSeq(s, 1, Len(p)) = p

\* String.prototype.endsWith
EndsWith(s, p) == Len(s) >= Len(p) /\ SubSeq(s, Len(s) - Len(p) + 1, Len(s)) = p

Drop(s, n) == SubSeq(s, n + 1, Len(s))

RECURSIVE TrimStart(_)
TrimStart(s) == IF s # <<>> /\ Head(s) \in Whitespace THEN TrimStart(Tail(s)) ELSE s

RECURSIVE TrimEnd(_)
TrimEnd(s) ==
    IF s # <<>> /\ s[Len(s)] \in Whitespace THEN TrimEnd(SubSeq(s, 1, Len(s) - 1)) ELSE s

\* String.prototype.trim
Trim(s) == TrimEnd(TrimStart(s))

\* The index of the first occurrence of p in s, 0 when there is none.
FirstIndexOf(s, p) ==
    LET hits == {i \in 1..(Len(s) - Len(p) + 1) : SubSeq(s, i, i + Len(p) - 1) = p}
    IN  IF hits = {} THEN 0 ELSE CHOOSE i \in hits : \A j \in hits : i <= j

\* String.prototype.replace with a string pattern: the first occurrence only.
ReplaceFirst(s, p, r) ==
    LET i == FirstIndexOf(s, p)
    IN  IF i = 0 THEN s
        ELSE SubSeq(s, 1, i - 1) \o r \o SubSeq(s, i + Len(p), Len(s))

\* .replace(/^https?:\/\//, '')
StripProtocol(s) ==
    IF StartsWith(s, HttpsPrefix) THEN Drop(s, Len(HttpsPrefix))
    ELSE IF StartsWith(s, HttpPrefix) THEN Drop(s, Len(HttpPrefix))
    ELSE s

\* .replace(/\/$/, '')
StripTrailingSlash(s) ==
    IF s # <<>> /\ s[Len(s)] = "/" THEN SubSeq(s, 1, Len(s) - 1) ELSE s

-----------------------------------------------------------------------------
(* normalizeShopifyDomain and isValidShopName *)

\* /^[a-zA-Z0-9][a-zA-Z0-9\.-]*[a-zA-Z0-9]$/.test(name) && name.length >= 1
isValidShopName(name) ==
    /\ Len(name) >= 2
    /\ name[1] \in AlphaNum
    /\ name[Len(name)] \in AlphaNum
    /\ \A i \in 2..(Len(name) - 1) : name[i] \in AlphaNum \cup {".", "-"}
    /\ Len(name) >= 1

\* The messages of the two Error objects it throws (their accents dropped).
ErrEmptyStore   == "El nombre de la tienda no puede estar vacio"
ErrInvalidStore == "Nombre de tienda invalido"

Threw(msg) == [ok |-> FALSE, err |-> msg]
Value(v)   == [ok |-> TRUE, v |-> v]

\* A plausible slip: the suffix appended without looking for one already there.
normalizeShopifyDomain_AlwaysAppend(storeName) ==
    LET domain == StripTrailingSlash(StripProtocol(Trim(storeName)))
    IN  IF Trim(storeName) = <<>> THEN Threw(ErrEmptyStore)
        ELSE IF ~isValidShopName(domain) THEN Threw(ErrInvalidStore)
        ELSE Value(domain \o MyshopifySuffix)

normalizeShopifyDomain(storeName) ==
    LET trimmed == Trim(storeName)
        domain  == StripTrailingSlash(StripProtocol(trimmed))
    IN  IF trimmed = <<>> THEN Threw(ErrEmptyStore)
        ELSE IF EndsWith(domain, MyshopifySuffix)
             THEN IF ~isValidShopName(ReplaceFirst(domain, MyshopifySuffix, <<>>))
                  THEN Threw(ErrInvalidStore)
                  ELSE Value(domain)
        ELSE IF ~isValidShopName(domain) THEN Threw(ErrInvalidStore)
        ELSE Value(domain \o MyshopifySuffix)

\* The fragments store names are assembled from.
Foo == <<"f", "o", "o">>
Bad == <<"b", "a", "d">>
FooDomain == Foo \o MyshopifySuffix
Pieces == {HttpsPrefix, HttpPrefix, MyshopifySuffix, Foo, FooDomain, Bad, <<"a">>, <<"-">>,
           <<".">>, <<" ">>, <<"/">>}

\* The most fragments a store name is assembled from.
MaxPieces == 3

RECURSIVE Flatten(_)
Flatten(ps) == IF ps = <<>> THEN <<>> ELSE Head(ps) \o Flatten(Tail(ps))

StoreNames == {Flatten(ps) : ps \in UNION {[1..n -> Pieces] : n \in 0..MaxPieces}}

-----------------------------------------------------------------------------
(* The credential context and the auth resolvers *)

\* AuthContext.valid is an optional boolean.
ValidValues == {"true", "false", Undef}

TokenValues   == {Undef, "", "ya29.token"}
AuthUrlValues == {Undef, "", "https://auth.example/authorize"}
ErrorValues   == {Undef, "", "token expired"}

\* headers["x-mkp-shopify-domain"] and metadata.userInfo.name
HeaderDomains == {NoName, <<>>, Foo, <<"-">> \o Bad \o <<"-">>, <<" ", " ">>,
                  HttpsPrefix \o Foo \o MyshopifySuffix \o <<"/">>}
MetadataNames == {NoName, Foo, <<"a", "-">>}

\* createXService(auth?: AuthContext): the argument may be missing altogether.
NoAuth == [present |-> FALSE, valid |-> Undef, accessToken |-> Undef, authUrl |-> Undef,
           error |-> Undef, headerDomain |-> NoName, metaName |-> NoName]

AuthContexts ==
    {NoAuth} \cup
    [present : {TRUE}, valid : ValidValues, accessToken : TokenValues,
     authUrl : AuthUrlValues, error : ErrorValues,
     headerDomain : HeaderDomains, metaName : MetadataNames]

\* !name for a store name
TruthyName(n) == n # NoName /\ n # <<>>

\* An error text is the sequence of the fragments of its template literal.
Contains(text, part) == \E i \in 1..Len(text) : text[i] = part

NoResult == [by |-> "none", kind |-> "none", accessToken |-> Undef, shopDomain |-> NoName,
             error |-> <<>>, authUrl |-> Undef]

\* new XService({accessToken, shopDomain})
Service(by, token, domain) ==
    [by |-> by, kind |-> "service", accessToken |-> token, shopDomain |-> domain,
     error |-> <<>>, authUrl |-> Undef]

\* return {error, authUrl}
ErrorObject(by, text, url) ==
    [by |-> by, kind |-> "error", accessToken |-> Undef, shopDomain |-> NoName,
     error |-> text, authUrl |-> url]

\* an Error propagating out of the resolver
Thrown(by, msg) ==
    [by |-> by, kind |-> "throw", accessToken |-> Undef, shopDomain |-> NoName,
     error |-> <<msg>>, authUrl |-> Undef]

MsgShopifyAuthRequired == "Authentication required. Please authenticate with Shopify first."
MsgShopifyMissingToken == "Access token is required but was not provided."
MsgShopifyMissingDomain ==
    "Shopify domain is required. Please provide the shop domain in the x-mkp-shopify-domain header."
MsgVisitUrl(product) ==
    "Authentication required. Please visit this URL to authorize " \o product \o " access: "
MsgNoToken     == "Authentication failed: No access token available. Please ensure you are authenticated."
MsgNoTokenDocs ==
    "Authentication failed: No access token available. Please ensure you are authenticated with Google."

\* auth.headers?.["x-mkp-shopify-domain"] || auth.metadata?.userInfo?.name
ShopDomainOf(a) == IF TruthyName(a.headerDomain) THEN a.headerDomain ELSE a.metaName

\* A plausible slip: the metadata fallback forgotten.
createShopifyService_HeaderOnly(a) ==
    IF ~(a.present /\ a.valid = "true")
    THEN ErrorObject("shopify",
                     <<IF a.present /\ Truthy(a.error) THEN a.error ELSE MsgShopifyAuthRequired>>,
                     Undef)
    ELSE IF ~Truthy(a.accessToken)
    THEN ErrorObject("shopify", <<MsgShopifyMissingToken>>, Undef)
    ELSE IF ~TruthyName(a.headerDomain)
    THEN ErrorObject("shopify", <<MsgShopifyMissingDomain>>, Undef)
    ELSE LET n == normalizeShopifyDomain(a.headerDomain)
         IN  IF n.ok THEN Service("shopify", a.accessToken, n.v)
             ELSE Thrown("shopify", n.err)

createShopifyService(a) ==
    IF ~(a.present /\ a.valid = "true")
    THEN ErrorObject("shopify",
                     <<IF a.present /\ Truthy(a.error) THEN a.error ELSE MsgShopifyAuthRequired>>,
                     Undef)
    ELSE IF ~Truthy(a.accessToken)
    THEN ErrorObject("shopify", <<MsgShopifyMissingToken>>, Undef)
    ELSE IF ~TruthyName(ShopDomainOf(a))
    THEN ErrorObject("shopify", <<MsgShopifyMissingDomain>>, Undef)
    ELSE LET n == normalizeShopifyDomain(ShopDomainOf(a))
         IN  IF n.ok THEN Service("shopify", a.accessToken, n.v)
             ELSE Thrown("shopify", n.err)   \* normalizeShopifyDomain's throw is not caught

\* The body shared by createDriveService, createDocsService and createGmailService.
GoogleResolver(by, product, noTokenMsg, a) ==
    IF a.present /\ a.valid = "false" /\ Truthy(a.authUrl)
    THEN ErrorObject(by, <<MsgVisitUrl(product), a.authUrl>>, a.authUrl)
    ELSE IF ~(a.present /\ Truthy(a.accessToken))
    THEN ErrorObject(by, <<noTokenMsg>>, Undef)
    ELSE Service(by, a.accessToken, NoName)

createDriveService(a) == GoogleResolver("drive", "Google Drive", MsgNoToken, a)
createDocsService(a)  == GoogleResolver("docs", "Google Docs", MsgNoTokenDocs, a)
createGmailService(a) == GoogleResolver("gmail", "Gmail", MsgNoToken, a)

\* A tool handler resolves its service from the context it was created with.
ResolveShopify ==
    /\ res.kind = "none"
    /\ \E a \in AuthContexts : auth' = a /\ res' = createShopifyService(a)
    /\ UNCHANGED <<domVars, opVars, otherVars>>

ResolveDrive ==
    /\ res.kind = "none"
    /\ \E a \in AuthContexts : auth' = a /\ res' = createDriveService(a)
    /\ UNCHANGED <<domVars, opVars, otherVars>>

ResolveDocs ==
    /\ res.kind = "none"
    /\ \E a \in AuthContexts : auth' = a /\ res' = createDocsService(a)
    /\ UNCHANGED <<domVars, opVars, otherVars>>

ResolveGmail ==
    /\ res.kind = "none"
    /\ \E a \in AuthContexts : auth' = a /\ res' = createGmailService(a)
    /\ UNCHANGED <<domVars, opVars, otherVars>>

\* The handler has answered: the context is not kept beyond its request.
RequestEnds ==
    /\ res.kind # "none"
    /\ auth' = NoAuth
    /\ res' = NoResult
    /\ UNCHANGED <<domVars, opVars, otherVars>>

-----------------------------------------------------------------------------
(* Normalising store names, and normalising the result again *)

\* How many times a result is normalised again.
MaxRenormalize == 2

NormalizeStoreName ==
    /\ domIn = NoName
    /\ \E s \in StoreNames :
         /\ domIn' = s
         /\ domOut' = normalizeShopifyDomain(s)
    /\ domGen' = 0
    /\ UNCHANGED <<authVars, opVars, otherVars>>

NormalizeAgain ==
    /\ domOut.ok
    /\ domGen < MaxRenormalize
    /\ domIn' = domOut.v
    /\ domOut' = normalizeShopifyDomain(domOut.v)
    /\ domGen' = domGen + 1
    /\ UNCHANGED <<authVars, opVars, otherVars>>

-----------------------------------------------------------------------------
(* JSON values of a provider's body, JSON.stringify and truthiness *)

JUndefined == [t |-> "undefined", s |-> "", keys |-> <<>>, items |-> <<>>]
JNull      == [t |-> "null", s |-> "", keys |-> <<>>, items |-> <<>>]
JStr(x)    == [t |-> "str", s |-> x, keys |-> <<>>, items |-> <<>>]
JArr(xs)   == [t |-> "arr", s |-> "", keys |-> <<>>, items |-> xs]
JObj(ks, xs) == [t |-> "obj", s |-> "", keys |-> ks, items |-> xs]

\* if (v): undefined, null and '' are falsy; arrays and objects are truthy
JsTruthy(v) == v.t \notin {"undefined", "null"} /\ ~(v.t = "str" /\ v.s = "")

RECURSIVE JsonStringify(_)
RECURSIVE JsonJoin(_, _, _)
\* the members of an array (keys = <<>>) or of an object, comma separated
JsonJoin(keys, items, i) ==
    IF i > Len(items) THEN ""
    ELSE (IF i > 1 THEN "," ELSE "")
         \o (IF keys = <<>> THEN "" ELSE "\"" \o keys[i] \o "\":")
         \o JsonStringify(items[i])
         \o JsonJoin(keys, items, i + 1)

\* JSON.stringify(v)
JsonStringify(v) ==
    CASE v.t = "str"  -> "\"" \o v.s \o "\""
      [] v.t = "arr"  -> "[" \o JsonJoin(<<>>, v.items, 1) \o "]"
      [] v.t = "obj"  -> "{" \o JsonJoin(v.keys, v.items, 1) \o "}"
      [] v.t = "null" -> "null"
      [] OTHER        -> Undef

\* The errors member of a body: missing, null, '', a string, Shopify's field map.
ErrEmailTaken == JObj(<<"email">>, <<JArr(<<JStr("has already been taken")>>)>>)
ErrorsValues  == {JUndefined, JNull, JStr(""), JStr("Not Found"), ErrEmailTaken}

-----------------------------------------------------------------------------
(* What a fetch() to the Shopify Admin API can come back with *)

\* The most records a provider list holds.
MaxItems == 2

\* A record of a provider resource (product, order, customer, collection, fulfillment).
Item(i) == [id |-> i, title |-> IF i = 1 THEN "Summer" ELSE "Winter",
            handle |-> IF i = 1 THEN "summer" ELSE "winter"]

ItemLists == UNION {[1..n -> {Item(1), Item(2)}] : n \in 0..MaxItems}

NoResource == [present |-> FALSE, v |-> <<>>]

\* The body's resource member: missing, or one record / a list of records.  The one
\* record is kept as a list of one.
Resources(shape) ==
    {NoResource} \cup
    [present : {TRUE}, v : IF shape = "one" THEN {<<Item(1)>>} ELSE ItemLists]

\* A body that is not JSON, the JSON null, or a JSON object.
Bodies(shape) ==
    {[parse |-> "fail", errors |-> JUndefined, resource |-> NoResource],
     [parse |-> "null", errors |-> JUndefined, resource |-> NoResource]}
    \cup [parse : {"obj"}, errors : ErrorsValues, resource : Resources(shape)]

NoBody == [parse |-> "fail", errors |-> JUndefined, resource |-> NoResource]

\* fetch() rejects (network level), or resolves to a Response.
FetchResults(shape) ==
    [kind : {"neterr"}, msg : {"", "error sending request"}, ok : {FALSE},
     statusText : {""}, body : {NoBody}]
    \cup [kind : {"resp"}, msg : {""}, ok : {TRUE}, statusText : {"OK"}, body : Bodies(shape)]
    \cup [kind : {"resp"}, msg : {""}, ok : {FALSE},
          statusText : {"Unprocessable Entity", ""}, body : Bodies(shape)]

\* The messages of the engine's own exceptions.
MsgJsonSyntax  == "Unexpected token < in JSON at position 0"
MsgTypeOfNull  == "Cannot read properties of null"
MsgTypeOfUndef == "Cannot read properties of undefined"

-----------------------------------------------------------------------------
(* Envelopes *)

NoEnv == [success |-> FALSE, hasData |-> FALSE, data |-> <<>>, error |-> Undef,
          details |-> Undef]

\* {success: true, data}; data may be undefined
Success(hasData, data) ==
    [success |-> TRUE, hasData |-> hasData, data |-> data, error |-> Undef, details |-> Undef]

\* {success: false, error, details}
Failure(error, details) ==
    [success |-> FALSE, hasData |-> FALSE, data |-> <<>>, error |-> error, details |-> details]

\* A plausible slip: the fallback for an empty message forgotten.
Caught_MessageOnly(msg, fallback, details) == Failure(msg, details)

\* catch (error) { return {success: false, error: error.message || fallback, details} }
Caught(msg, fallback, details) == Failure(IF msg # "" THEN msg ELSE fallback, details)

MsgUnknown == "Unknown error occurred"

\* details: responseData.errors ? JSON.stringify(responseData.errors) : "Unknown error occurred"
ErrorDetails(body) ==
    IF JsTruthy(body.errors) THEN JsonStringify(body.errors) ELSE MsgUnknown

\* A request as logged in sent: which endpoint, and which sending of it.
Req(name) == [via |-> "fetch", req |-> name, attempt |-> 1]

-----------------------------------------------------------------------------
(* The wrapper methods of the Shopify services *)

NoCall == [svc |-> "none", op |-> "none", args |-> <<>>, results |-> <<>>]

\* What one run of a method comes to: the envelope, the requests, the results read.
Run(e, s, rs) == [env |-> e, sent |-> s, results |-> rs]

\* try { response = await fetch(..); responseData = await response.json();
\*       if (!response.ok) return {success: false, error: `${label}: ${statusText}`, details};
\*       <the 2xx branch> } catch (error) { return {success: false, error: message || fallback} }
ShopifyEnvelope(label, fallback, unexpected, r, OkEnv(_)) ==
    IF r.kind = "neterr" THEN Caught(r.msg, fallback, unexpected)
    ELSE IF r.body.parse = "fail" THEN Caught(MsgJsonSyntax, fallback, unexpected)
    ELSE IF r.body.parse = "null" THEN Caught(MsgTypeOfNull, fallback, unexpected)
    ELSE IF ~r.ok THEN Failure(label \o ": " \o r.statusText, ErrorDetails(r.body))
    ELSE OkEnv(r.body)

\* data: responseData.<key> as it came
RawData(body) == Success(body.resource.present, body.resource.v)

\* ShopifyService.createProduct
createProduct(r) ==
    ShopifyEnvelope("Failed to create product", "Failed to create product",
                    "An unexpected error occurred while creating the product", r, RawData)

\* the products, each reduced to the listed fields
ProductList(body) ==
    LET products == IF body.resource.present THEN body.resource.v ELSE <<>>
    IN  Success(TRUE, [i \in 1..Len(products) |->
                         [id |-> products[i].id, title |-> products[i].title,
                          url |-> products[i].handle]])

\* ShopifyService.listProducts
listProducts(r) ==
    ShopifyEnvelope("Failed to list products", "Failed to list products",
                    "An unexpected error occurred while listing products", r, ProductList)

\* ShopifyService.getProductInfo
getProductInfo(product_id, r) ==
    LET Found(body) ==
            IF ~body.resource.present
            THEN Failure("Product not found", "No product found with ID: " \o product_id)
            ELSE Success(TRUE, <<[id |-> body.resource.v[1].id, title |-> body.resource.v[1].title,
                                url |-> body.resource.v[1].handle]>>)
    IN  ShopifyEnvelope("Failed to get product info", "Failed to get product info",
                        "An unexpected error occurred while getting product information",
                        r, Found)

CustomerList(body) ==
    LET customers == IF body.resource.present THEN body.resource.v ELSE <<>>
    IN  Success(TRUE, [i \in 1..Len(customers) |->
                         [id |-> customers[i].id, first_name |-> customers[i].title]])

\* CustomerService.listCustomers
listCustomers(r) ==
    ShopifyEnvelope("Failed to list customers", "Failed to list customers",
                    "An unexpected error occurred while listing customers", r, CustomerList)

\* CustomerService.createCustomer: customer.id of a missing customer throws
createCustomer(r) ==
    LET Created(body) ==
            IF ~body.resource.present
            THEN Caught(MsgTypeOfUndef, "Failed to create customer",
                        "An unexpected error occurred while creating the customer")
            ELSE Success(TRUE, <<[customer_id |-> body.resource.v[1].id,
                                first_name |-> body.resource.v[1].title]>>)
    IN  ShopifyEnvelope("Failed to create customer", "Failed to create customer",
                        "An unexpected error occurred while creating the customer", r, Created)

\* CollectionService.createCustomCollection
createCustomCollection(r) ==
    ShopifyEnvelope("Failed to create custom collection", "Failed to create custom collection",
                    "An unexpected error occurred while creating the custom collection",
                    r, RawData)

\* CollectionService.createSmartCollection
createSmartCollection(r) ==
    ShopifyEnvelope("Failed to create smart collection", "Failed to create smart collection",
                    "An unexpected error occurred while creating the smart collection",
                    r, RawData)

\* OrderService.createOrder
createOrder(r) ==
    ShopifyEnvelope("Failed to create order", "Failed to create order",
                    "An unexpected error occurred while creating the order", r, RawData)

\* OrderService.createDraftOrder
createDraftOrder(r) ==
    ShopifyEnvelope("Failed to create draft order", "Failed to create draft order",
                    "An unexpected error occurred while creating the draft order", r, RawData)

\* FulfillmentService.createFulfillment
createFulfillment(r) ==
    ShopifyEnvelope("Failed to create fulfillment", "Failed to create fulfillment",
                    "An unexpected error occurred while creating the fulfillment", r, RawData)

\* FulfillmentService.updateFulfillmentTracking: fulfillment.status of a missing one throws
updateFulfillmentTracking(r) ==
    LET Updated(body) ==
            IF ~body.resource.present
            THEN Caught(MsgTypeOfUndef, "Failed to update fulfillment tracking",
                        "An unexpected error occurred while updating fulfillment tracking")
            ELSE Success(TRUE, <<[updated |-> TRUE, status |-> body.resource.v[1].title]>>)
    IN  ShopifyEnvelope("Failed to update fulfillment tracking",
                        "Failed to update fulfillment tracking",
                        "An unexpected error occurred while updating fulfillment tracking",
                        r, Updated)

\* FulfillmentService.cancelFulfillment
cancelFulfillment(r) ==
    LET Cancelled(body) ==
            IF ~body.resource.present
            THEN Caught(MsgTypeOfUndef, "Failed to cancel fulfillment",
                        "An unexpected error occurred while cancelling the fulfillment")
            ELSE Success(TRUE, <<[updated |-> TRUE, status |-> body.resource.v[1].title]>>)
    IN  ShopifyEnvelope("Failed to cancel fulfillment", "Failed to cancel fulfillment",
                        "An unexpected error occurred while cancelling the fulfillment",
                        r, Cancelled)

MsgOrderUnexpected == "An unexpected error occurred while getting order information"

\* OrderService.getOrderInfo, from the fetch of the order on
FetchOrder(orderId, r) ==
    LET Found(body) ==
            IF ~body.resource.present
            THEN Failure("Order not found", "No order found with ID: " \o orderId)
            ELSE Success(TRUE, <<[order_id |-> body.resource.v[1].id, name |-> body.resource.v[1].title]>>)
    IN  ShopifyEnvelope("Failed to get order info", "Failed to get order info",
                        MsgOrderUnexpected, r, Found)

ReqSearchOrder == Req("GET orders.json?name")
ReqFetchOrder  == Req("GET orders/{id}.json")

\* A plausible slip: the order fetched again by id although the search already failed.
getOrderInfo_FetchAnyway(order_id, order_number, r1, r2) ==
    IF ~Truthy(order_id) /\ ~Truthy(order_number)
    THEN Run(Failure("Either order_id or order_number is required",
                     "You must provide at least one identifier to retrieve an order"),
             <<>>, <<>>)
    ELSE IF Truthy(order_id)
    THEN Run(FetchOrder(order_id, r2), <<ReqFetchOrder>>, <<r2>>)
    ELSE Run(FetchOrder(order_number, r2), <<ReqSearchOrder, ReqFetchOrder, ReqFetchOrder>>,
             <<r1, r2>>)

\* OrderService.getOrderInfo; r1 answers the search by order number, r2 the fetch by id
getOrderInfo(order_id, order_number, r1, r2) ==
    IF ~Truthy(order_id) /\ ~Truthy(order_number)
    THEN Run(Failure("Either order_id or order_number is required",
                     "You must provide at least one identifier to retrieve an order"),
             <<>>, <<>>)
    ELSE IF Truthy(order_id)
    THEN Run(FetchOrder(order_id, r2), <<ReqFetchOrder>>, <<r2>>)
    ELSE IF r1.kind = "neterr"
    THEN Run(Caught(r1.msg, "Failed to get order info", MsgOrderUnexpected),
             <<ReqSearchOrder>>, <<r1>>)
    ELSE IF r1.body.parse = "fail"
    THEN Run(Caught(MsgJsonSyntax, "Failed to get order info", MsgOrderUnexpected),
             <<ReqSearchOrder>>, <<r1>>)
    ELSE IF r1.ok /\ r1.body.parse = "null"
    THEN Run(Caught(MsgTypeOfNull, "Failed to get order info", MsgOrderUnexpected),
             <<ReqSearchOrder>>, <<r1>>)
    ELSE IF ~r1.ok \/ ~r1.body.resource.present \/ Len(r1.body.resource.v) = 0
    THEN Run(Failure("Order not found", "No order found with order_number: " \o order_number),
             <<ReqSearchOrder>>, <<r1>>)
    ELSE Run(FetchOrder(ToString(r1.body.resource.v[1].id), r2),
             <<ReqSearchOrder, ReqFetchOrder>>, <<r1, r2>>)

\* listCollections({limit = 50})
Limits == {1, 50}

ReqCustomCollections == Req("GET custom_collections.json")
ReqSmartCollections  == Req("GET smart_collections.json")

Pending == [kind |-> "pending", msg |-> "", ok |-> FALSE, statusText |-> "", body |-> NoBody]
NoneSettled == [custom |-> Pending, smart |-> Pending]

MsgCollectionsUnexpected == "An unexpected error occurred while listing collections"

\* {collection_id, title, handle} of each record
CollectionItems(list) ==
    [i \in 1..Len(list) |->
        [collection_id |-> list[i].id, title |-> list[i].title, handle |-> list[i].handle]]

\* if (data.<key>) data.<key>.forEach(...)
CollectionsOf(body) == IF body.resource.present THEN body.resource.v ELSE <<>>

\* A plausible slip: the smart collections pushed before the custom ones.
listCollectionsJoin_SmartFirst(custom, smart) ==
    IF custom.body.parse = "fail" \/ smart.body.parse = "fail"
    THEN Caught(MsgJsonSyntax, "Failed to list collections", MsgCollectionsUnexpected)
    ELSE IF ~custom.ok
    THEN IF custom.body.parse = "null"
         THEN Caught(MsgTypeOfNull, "Failed to list collections", MsgCollectionsUnexpected)
         ELSE Failure("Failed to fetch custom collections: " \o custom.statusText,
                      ErrorDetails(custom.body))
    ELSE IF ~smart.ok
    THEN IF smart.body.parse = "null"
         THEN Caught(MsgTypeOfNull, "Failed to list collections", MsgCollectionsUnexpected)
         ELSE Failure("Failed to fetch smart collections: " \o smart.statusText,
                      ErrorDetails(smart.body))
    ELSE IF custom.body.parse = "null" \/ smart.body.parse = "null"
    THEN Caught(MsgTypeOfNull, "Failed to list collections", MsgCollectionsUnexpected)
    ELSE Success(TRUE, CollectionItems(CollectionsOf(smart.body))
                       \o CollectionItems(CollectionsOf(custom.body)))

\* CollectionService.listCollections once Promise.all has both responses
listCollectionsJoin(custom, smart) ==
    IF custom.body.parse = "fail" \/ smart.body.parse = "fail"
    THEN Caught(MsgJsonSyntax, "Failed to list collections", MsgCollectionsUnexpected)
    ELSE IF ~custom.ok
    THEN IF custom.body.parse = "null"
         THEN Caught(MsgTypeOfNull, "Failed to list collections", MsgCollectionsUnexpected)
         ELSE Failure("Failed to fetch custom collections: " \o custom.statusText,
                      ErrorDetails(custom.body))
    ELSE IF ~smart.ok
    THEN IF smart.body.parse = "null"
         THEN Caught(MsgTypeOfNull, "Failed to list collections", MsgCollectionsUnexpected)
         ELSE Failure("Failed to fetch smart collections: " \o smart.statusText,
                      ErrorDetails(smart.body))
    ELSE IF custom.body.parse = "null" \/ smart.body.parse = "null"
    THEN Caught(MsgTypeOfNull, "Failed to list collections", MsgCollectionsUnexpected)
    ELSE Success(TRUE, CollectionItems(CollectionsOf(custom.body))
                       \o CollectionItems(CollectionsOf(smart.body)))

-----------------------------------------------------------------------------
(* Invocations of the Shopify wrapper methods *)

\* A tool handler called a method, which ran to its return in one piece: its awaits
\* suspend nothing else here.
Returns(svc, op, args, run) ==
    /\ outcome = "idle"
    /\ call' = [svc |-> svc, op |-> op, args |-> args, results |-> run.results]
    /\ sent' = run.sent
    /\ env' = run.env
    /\ outcome' = "returned"
    /\ inflight' = {}
    /\ settled' = NoneSettled
    /\ UNCHANGED <<authVars, domVars, otherVars>>

CreateProduct ==
    /\ outcome = "idle"
    /\ \E r \in FetchResults("one") :
         Returns("ShopifyService", "createProduct", <<>>,
                 Run(createProduct(r), <<Req("POST products.json")>>, <<r>>))
    /\ UNCHANGED userEmail

ListProducts ==
    /\ outcome = "idle"
    /\ \E r \in FetchResults("list") :
         Returns("ShopifyService", "listProducts", <<>>,
                 Run(listProducts(r), <<Req("GET products.json")>>, <<r>>))
    /\ UNCHANGED userEmail
ProductIds == {"632910392"}

GetProductInfo ==
    /\ outcome = "idle"
    /\ \E id \in ProductIds, r \in FetchResults("one") :
         Returns("ShopifyService", "getProductInfo", [product_id |-> id],
                 Run(getProductInfo(id, r), <<Req("GET products/{id}.json")>>, <<r>>))
    /\ UNCHANGED userEmail

ListCustomers ==
    /\ outcome = "idle"
    /\ \E r \in FetchResults("list") :
         Returns("CustomerService", "listCustomers", <<>>,
                 Run(listCustomers(r), <<Req("GET customers.json")>>, <<r>>))
    /\ UNCHANGED userEmail

CreateCustomer ==
    /\ outcome = "idle"
    /\ \E r \in FetchResults("one") :
         Returns("CustomerService", "createCustomer", <<>>,
                 Run(createCustomer(r), <<Req("POST customers.json")>>, <<r>>))
    /\ UNCHANGED userEmail

CreateCustomCollection ==
    /\ outcome = "idle"
    /\ \E r \in FetchResults("one") :
         Returns("CollectionService", "createCustomCollection", <<>>,
                 Run(createCustomCollection(r), <<Req("POST custom_collections.json")>>, <<r>>))
    /\ UNCHANGED userEmail

CreateSmartCollection ==
    /\ outcome = "idle"
    /\ \E r \in FetchResults("one") :
         Returns("CollectionService", "createSmartCollection", <<>>,
                 Run(createSmartCollection(r), <<Req("POST smart_collections.json")>>, <<r>>))
    /\ UNCHANGED userEmail

CreateOrder ==
    /\ outcome = "idle"
    /\ \E r \in FetchResults("one") :
         Returns("OrderService", "createOrder", <<>>,
                 Run(createOrder(r), <<Req("POST orders.json")>>, <<r>>))
    /\ UNCHANGED userEmail

CreateDraftOrder ==
    /\ outcome = "idle"
    /\ \E r \in FetchResults("one") :
         Returns("OrderService", "createDraftOrder", <<>>,
                 Run(createDraftOrder(r), <<Req("POST draft_orders.json")>>, <<r>>))
    /\ UNCHANGED userEmail

CreateFulfillment ==
    /\ outcome = "idle"
    /\ \E r \in FetchResults("one") :
         Returns("FulfillmentService", "createFulfillment", <<>>,
                 Run(createFulfillment(r), <<Req("POST fulfillments.json")>>, <<r>>))
    /\ UNCHANGED userEmail

UpdateFulfillmentTracking ==
    /\ outcome = "idle"
    /\ \E r \in FetchResults("one") :
         Returns("FulfillmentService", "updateFulfillmentTracking", <<>>,
                 Run(updateFulfillmentTracking(r), <<Req("POST fulfillments/{id}/update_tracking.json")>>, <<r>>))
    /\ UNCHANGED userEmail

CancelFulfillment ==
    /\ outcome = "idle"
    /\ \E r \in FetchResults("one") :
         Returns("FulfillmentService", "cancelFulfillment", <<>>,
                 Run(cancelFulfillment(r), <<Req("POST fulfillments/{id}/cancel.json")>>, <<r>>))
    /\ UNCHANGED userEmail
OrderIds     == {Undef, "450789469"}
OrderNumbers == {Undef, "1001"}

\* The results a run did not read are not part of what happened.
Unread == Pending

GetOrderInfo ==
    /\ outcome = "idle"
    /\ \E id \in OrderIds, number \in OrderNumbers :
         \E r1 \in IF ~Truthy(id) /\ Truthy(number) THEN FetchResults("list") ELSE {Unread} :
           \E r2 \in IF Truthy(id) \/ (Truthy(number) /\ r1.kind = "resp" /\ r1.ok
                                         /\ r1.body.parse = "obj" /\ r1.body.resource.present
                                         /\ Len(r1.body.resource.v) > 0)
                     THEN FetchResults("one") ELSE {Unread} :
             Returns("OrderService", "getOrderInfo", [order_id |-> id, order_number |-> number],
                     getOrderInfo(id, number, r1, r2))
    /\ UNCHANGED userEmail

\* listCollections up to its await Promise.all([fetch(custom), fetch(smart)])
ListCollectionsStart ==
    /\ outcome = "idle"
    /\ \E limit \in Limits :
         call' = [svc |-> "CollectionService", op |-> "listCollections",
                  args |-> [limit |-> limit], results |-> <<>>]
    /\ sent' = <<ReqCustomCollections, ReqSmartCollections>>
    /\ inflight' = {"custom", "smart"}
    /\ settled' = NoneSettled
    /\ env' = NoEnv
    /\ outcome' = "running"
    /\ UNCHANGED <<userEmail, authVars, domVars, otherVars>>

\* One of the two fetches settles.  A rejection rejects Promise.all at once and the
\* catch returns while the other fetch is still out; the second response resolves it
\* and the method runs on to its return.
ListCollectionsSettle ==
    /\ call.op = "listCollections"
    /\ \E w \in inflight, r \in FetchResults("list") :
         /\ inflight' = inflight \ {w}
         /\ settled' = [settled EXCEPT ![w] = r]
         /\ IF outcome # "running"
            THEN UNCHANGED <<env, outcome>>
            ELSE IF r.kind = "neterr"
            THEN /\ env' = Caught(r.msg, "Failed to list collections", MsgCollectionsUnexpected)
                 /\ outcome' = "returned"
            ELSE IF inflight = {w}
            THEN /\ env' = listCollectionsJoin([settled EXCEPT ![w] = r].custom,
                                               [settled EXCEPT ![w] = r].smart)
                 /\ outcome' = "returned"
            ELSE UNCHANGED <<env, outcome>>
    /\ UNCHANGED <<call, sent, userEmail, authVars, domVars, otherVars>>

-----------------------------------------------------------------------------
(* The Google API clients of DriveService, DocsService and GmailService *)

\* google.options({retry: true, retryConfig: {retries: 3, ...}}) in each constructor
GoogleRetryEnabled == TRUE
GoogleRetries == 3

\* A plausible slip: the first sending counted among the retries' retries.
MaxAttempts_OneMore == IF GoogleRetryEnabled THEN 2 + GoogleRetries ELSE 1

\* How often the client may send one request: once, and once more per retry.
MaxAttempts == IF GoogleRetryEnabled THEN 1 + GoogleRetries ELSE 1

\* response.data: missing, without the identifier asked for, or with it; list holds
\* the records of a listing.
NoData == [has |-> FALSE, id |-> Undef, list |-> <<>>]
IdData == {NoData, [has |-> TRUE, id |-> Undef, list |-> <<>>],
           [has |-> TRUE, id |-> "id-1", list |-> <<>>]}

\* A call of the client ends, after `attempts` sendings, with a response or with the
\* error of the last sending: no response at all (status 0) or an HTTP error.  Which
\* failures the client sends again is its own policy; any number up to the
\* configured one may happen.
ApiErrors ==
    [kind : {"err"}, attempts : 1..MaxAttempts, data : {NoData},
     msg : {"", "request to www.googleapis.com failed"}, status : {0}, apiMsg : {Undef}]
    \cup [kind : {"err"}, attempts : 1..MaxAttempts, data : {NoData}, msg : {"Forbidden"},
          status : {403}, apiMsg : {"Request had insufficient authentication scopes for contacts"}]
    \cup [kind : {"err"}, attempts : 1..MaxAttempts, data : {NoData}, msg : {"Not Found"},
          status : {404}, apiMsg : {"File not found"}]

ApiResults(datas) ==
    [kind : {"ok"}, attempts : 1..MaxAttempts, data : datas, msg : {""}, status : {200},
     apiMsg : {Undef}]
    \cup ApiErrors

NotCalled == [kind |-> "none", attempts |-> 0, data |-> NoData, msg |-> "", status |-> 0,
              apiMsg |-> Undef]

\* The sendings of one call, as logged in sent.
Sendings(name, r) ==
    [i \in 1..r.attempts |-> [via |-> "googleapis", req |-> name, attempt |-> i]]

\* catch (error) { return {success: false, error: error.message || fallback,
\*                         details: error.response?.data?.error?.message || 'Unknown error occurred'} }
ApiCaught(r, fallback) ==
    Failure(IF r.msg # "" THEN r.msg ELSE fallback,
            IF Truthy(r.apiMsg) THEN r.apiMsg ELSE MsgUnknown)

\* the same catch in the methods that return no details
ApiCaughtPlain(r, fallback) == Failure(IF r.msg # "" THEN r.msg ELSE fallback, Undef)

HasId(r) == r.data.has /\ Truthy(r.data.id)

\* One call, then {success: true, <id>} when response.data carries the identifier.
IdCall(name, r, fallback, missing) ==
    Run(IF r.kind = "err" THEN ApiCaught(r, fallback)
        ELSE IF ~HasId(r) THEN Failure(fallback, missing)
        ELSE Success(TRUE, <<[id |-> r.data.id]>>),
        Sendings(name, r), <<r>>)

MsgNoFileInfo == "Drive API did not return file information"

\* response.arrayBuffer(): the body is taken as it is, nothing is parsed
Bytes == [parse |-> "bytes", errors |-> JUndefined, resource |-> NoResource]

\* fetch(content) of uploadFile: a rejection, a 2xx or a non-2xx response
DownloadResults ==
    [kind : {"neterr"}, msg : {"", "error sending request"}, ok : {FALSE},
     status : {0}, statusText : {""}, body : {NoBody}]
    \cup [kind : {"resp"}, msg : {""}, ok : {TRUE}, status : {200}, statusText : {"OK"},
          body : {Bytes}]
    \cup [kind : {"resp"}, msg : {""}, ok : {FALSE}, status : {404},
          statusText : {"Not Found"}, body : {Bytes}]

MsgBadBase64 == "Failed to decode base64"

\* DriveService.uploadFile; dl answers the download of a 'url' source
uploadFile(source, validBase64, dl, r) ==
    IF source = "url" /\ dl.kind = "neterr"
    THEN Run(Caught(dl.msg, "Failed to upload file", MsgUnknown), <<Req("GET {content url}")>>, <<dl>>)
    ELSE IF source = "url" /\ ~dl.ok
    THEN Run(Failure("Failed to download file from URL", "HTTP " \o ToString(dl.status) \o ": " \o dl.statusText),
             <<Req("GET {content url}")>>, <<dl>>)
    ELSE IF source # "url" /\ ~validBase64
    THEN Run(Caught(MsgBadBase64, "Failed to upload file", MsgUnknown), <<>>, <<>>)
    ELSE LET before == IF source = "url" THEN <<Req("GET {content url}")>> ELSE <<>>
             read   == IF source = "url" THEN <<dl>> ELSE <<>>
             create == IdCall("drive.files.create", r, "Failed to upload file", MsgNoFileInfo)
         IN  Run(create.env, before \o create.sent, read \o create.results)

\* DriveService.listFiles
listFiles(r) ==
    Run(IF r.kind = "err" THEN ApiCaughtPlain(r, "Failed to list files")
        ELSE IF ~r.data.has THEN Caught(MsgTypeOfUndef, "Failed to list files", Undef)
        ELSE Success(TRUE, r.data.list),
        Sendings("drive.files.list", r), <<r>>)

\* DriveService.createFolder
createFolder(r) ==
    IdCall("drive.files.create", r, "Failed to create folder",
           "Drive API did not return folder information")

\* DriveService.deleteFile: {success: true} carries nothing else
deleteFile(r) ==
    Run(IF r.kind = "err" THEN ApiCaught(r, "Failed to delete file") ELSE Success(FALSE, <<>>),
        Sendings("drive.files.delete", r), <<r>>)

\* DriveService.getFileMetadata
getFileMetadata(r) ==
    Run(IF r.kind = "err" THEN ApiCaughtPlain(r, "Failed to get file metadata")
        ELSE IF ~r.data.has THEN Failure("File not found", Undef)
        ELSE Success(TRUE, <<[id |-> r.data.id]>>),
        Sendings("drive.files.get", r), <<r>>)

\* DriveService.downloadFile: the metadata, then the content
downloadFile(meta, media) ==
    IF meta.kind = "err"
    THEN Run(ApiCaughtPlain(meta, "Failed to download file"),
             Sendings("drive.files.get", meta), <<meta>>)
    ELSE IF ~meta.data.has
    THEN Run(Caught(MsgTypeOfUndef, "Failed to download file", Undef),
             Sendings("drive.files.get", meta), <<meta>>)
    ELSE Run(IF media.kind = "err" THEN ApiCaughtPlain(media, "Failed to download file")
             ELSE IF ~media.data.has THEN Failure("Failed to download file", Undef)
             ELSE Success(TRUE, <<[content |-> media.data.id]>>),
             Sendings("drive.files.get", meta) \o Sendings("drive.files.get?alt=media", media),
             <<meta, media>>)

\* DriveService.updateFile: a content that is not base64 throws before the call
updateFile(withContent, validBase64, r) ==
    IF withContent /\ ~validBase64
    THEN Run(Caught(MsgBadBase64, "Failed to update file", MsgUnknown), <<>>, <<>>)
    ELSE IdCall("drive.files.update", r, "Failed to update file", MsgNoFileInfo)

\* DriveService.copyFile
copyFile(r) == IdCall("drive.files.copy", r, "Failed to copy file", MsgNoFileInfo)

\* DriveService.shareFile
shareFile(type, emailAddress, domain, r) ==
    IF type \in {"user", "group"} /\ ~Truthy(emailAddress)
    THEN Run(Failure("Email address is required for user or group permissions", Undef),
             <<>>, <<>>)
    ELSE IF type = "domain" /\ ~Truthy(domain)
    THEN Run(Failure("Domain is required for domain permissions", Undef), <<>>, <<>>)
    ELSE IdCall("drive.permissions.create", r, "Failed to share file",
                "Drive API did not return permission information")

-----------------------------------------------------------------------------
(* DocsService *)

\* The results of a call whose response body the method does not read.
BareResults == ApiResults({NoData})

\* content && content.trim(), folder_id && folder_id.trim()
Texts == {Undef, "", "  ", "text"}
NonBlank(t) == Truthy(t) /\ t # "  "

\* A plausible slip: a document whose content or folder could not be set is deleted
\* again and the failure reported.
createDocument_RollsBack(content, folder_id, created, inserted, moved) ==
    LET first  == Sendings("docs.documents.create", created)
        second == IF NonBlank(content)
                  THEN Sendings("docs.documents.batchUpdate", inserted) ELSE <<>>
        third  == IF NonBlank(folder_id)
                  THEN Sendings("drive.files.update", moved) ELSE <<>>
        read   == <<created>> \o (IF NonBlank(content) THEN <<inserted>> ELSE <<>>)
                  \o (IF NonBlank(folder_id) THEN <<moved>> ELSE <<>>)
    IN  IF created.kind = "err"
        THEN Run(ApiCaught(created, "Failed to create document"), first, <<created>>)
        ELSE IF ~HasId(created)
        THEN Run(Failure("Failed to create document",
                         "Docs API did not return document information"),
                 first, <<created>>)
        ELSE IF inserted.kind = "err" \/ moved.kind = "err"
        THEN Run(Failure("Failed to create document", Undef),
                 first \o second \o third
                    \o <<[via |-> "googleapis", req |-> "drive.files.delete", attempt |-> 1]>>,
                 read)
        ELSE Run(Success(TRUE, <<[id |-> created.data.id]>>), first \o second \o third, read)

\* DocsService.createDocument: the creation, then the content and the folder, whose
\* failures are logged and dropped
createDocument(content, folder_id, created, inserted, moved) ==
    LET first  == Sendings("docs.documents.create", created)
        second == IF NonBlank(content)
                  THEN Sendings("docs.documents.batchUpdate", inserted) ELSE <<>>
        third  == IF NonBlank(folder_id)
                  THEN Sendings("drive.files.update", moved) ELSE <<>>
        read   == <<created>> \o (IF NonBlank(content) THEN <<inserted>> ELSE <<>>)
                  \o (IF NonBlank(folder_id) THEN <<moved>> ELSE <<>>)
    IN  IF created.kind = "err"
        THEN Run(ApiCaught(created, "Failed to create document"), first, <<created>>)
        ELSE IF ~HasId(created)
        THEN Run(Failure("Failed to create document",
                         "Docs API did not return document information"),
                 first, <<created>>)
        ELSE Run(Success(TRUE, <<[id |-> created.data.id]>>), first \o second \o third, read)

\* DocsService.getDocumentContent; data.id stands for response.data.body
getDocumentContent(r) ==
    Run(IF r.kind = "err" THEN ApiCaught(r, "Failed to get document content")
        ELSE IF ~HasId(r) THEN Failure("Failed to retrieve document", "Document body not found")
        ELSE Success(TRUE, <<[text |-> r.data.id]>>),
        Sendings("docs.documents.get", r), <<r>>)

\* DocsService.appendText: the document is read only when no location is given
appendText(hasLocation, doc, updated) ==
    LET first  == IF hasLocation THEN <<>> ELSE Sendings("docs.documents.get", doc)
        read   == IF hasLocation THEN <<>> ELSE <<doc>>
        second == Sendings("docs.documents.batchUpdate", updated)
    IN  IF ~hasLocation /\ doc.kind = "err"
        THEN Run(ApiCaught(doc, "Failed to append text"), first, read)
        ELSE IF ~hasLocation /\ ~HasId(doc)
        THEN Run(Failure("Failed to retrieve document for append", "Document body not found"),
                 first, read)
        ELSE Run(IF updated.kind = "err" THEN ApiCaught(updated, "Failed to append text")
                 ELSE Success(TRUE, <<[updated |-> TRUE]>>),
                 first \o second, read \o <<updated>>)

\* DocsService.replaceText: a response without data counts no replacement
replaceText(r) ==
    Run(IF r.kind = "err" THEN ApiCaught(r, "Failed to replace text")
        ELSE Success(TRUE, <<[updated |-> HasId(r)]>>),
        Sendings("docs.documents.batchUpdate", r), <<r>>)

\* DocsService.copyDocument
copyDocument(r) ==
    IdCall("drive.files.copy", r, "Failed to copy document",
           "Drive API did not return new document information")

\* DocsService.shareDocument: the permission, then the link; both read response.data
shareDocument(permission, file) ==
    LET first  == Sendings("drive.permissions.create", permission)
        second == Sendings("drive.files.get", file)
    IN  IF permission.kind = "err"
        THEN Run(ApiCaught(permission, "Failed to share document"), first, <<permission>>)
        ELSE IF ~permission.data.has
        THEN Run(Caught(MsgTypeOfUndef, "Failed to share document", MsgUnknown),
                 first, <<permission>>)
        ELSE Run(IF file.kind = "err" THEN ApiCaught(file, "Failed to share document")
                 ELSE IF ~file.data.has
                 THEN Caught(MsgTypeOfUndef, "Failed to share document", MsgUnknown)
                 ELSE Success(TRUE, <<[share_link |-> "link", permission_id |-> permission.data.id]>>),
                 first \o second, <<permission, file>>)

-----------------------------------------------------------------------------
(* GmailService *)

\* The characters of a sequence, as one string.
RECURSIVE Str(_)
Str(cs) == IF cs = <<>> THEN "" ELSE Head(cs) \o Str(Tail(cs))

\* The places of character c in cs.
Places(cs, c) == {i \in 1..Len(cs) : cs[i] = c}

\* A plausible slip: the '.' of the domain not asked for.
validateEmail_AnyDomain(email) ==
    /\ \A i \in 1..Len(email) : email[i] \notin Whitespace
    /\ Cardinality(Places(email, "@")) = 1
    /\ LET at == CHOOSE i \in Places(email, "@") : TRUE
       IN  at > 1 /\ at < Len(email)

\* /^[^\s@]+@[^\s@]+\.[^\s@]+$/.test(email): no white space, one '@' with something
\* before it, and after it a '.' that is neither first nor last
validateEmail(email) ==
    /\ \A i \in 1..Len(email) : email[i] \notin Whitespace
    /\ Cardinality(Places(email, "@")) = 1
    /\ LET at == CHOOSE i \in Places(email, "@") : TRUE
       IN  /\ at > 1
           /\ \E i \in Places(email, ".") : at + 1 < i /\ i < Len(email)

UserAtExample   == <<"u","s","e","r","@","e","x","a","m","p","l","e",".","c","o","m">>
UserAt          == <<"u","s","e","r","@">>
AtExample       == <<"@","e","x","a","m","p","l","e",".","c","o","m">>
UserSpaceExample == <<"u","s","e","r"," ","e","x","a","m","p","l","e",".","c","o","m">>
Addresses == {UserAtExample, UserAt, AtExample, UserSpaceExample, <<"a","@","b",".","c">>,
              <<"a","@",".","c">>, <<"a","@","b",".">>, <<"a","@","b","@","c",".","d">>}

\* The addresses validateEmail is tried on: the named ones, and every string of at
\* most MaxAddress characters over a letter, '@', '.' and a blank.
MaxAddress == 5
AddressChars == {"u", "@", ".", " "}
AddressInputs ==
    Addresses \cup UNION {[1..n -> AddressChars] : n \in 0..MaxAddress}

NotValidated == [done |-> FALSE, email |-> <<>>, accepted |-> FALSE]

\* validateEmail(email) is called
ValidateEmail ==
    /\ ~validation.done
    /\ \E email \in AddressInputs :
         validation' = [done |-> TRUE, email |-> email, accepted |-> validateEmail(email)]
    /\ UNCHANGED <<authVars, domVars, opVars, header, message, relay, handler, raw, standalone>>

-----------------------------------------------------------------------------
(* encodeEmailHeader.  A text is the sequence of its code points; what is emitted
   is a sequence of ASCII codes. *)

\* Buffer.from(text): the UTF-8 bytes of one code point
Utf8(cp) ==
    IF cp < 128 THEN <<cp>>
    ELSE IF cp < 2048 THEN <<192 + (cp \div 64), 128 + (cp % 64)>>
    ELSE IF cp < 65536
    THEN <<224 + (cp \div 4096), 128 + ((cp \div 64) % 64), 128 + (cp % 64)>>
    ELSE <<240 + (cp \div 262144), 128 + ((cp \div 4096) % 64),
           128 + ((cp \div 64) % 64), 128 + (cp % 64)>>

Utf8Bytes(text) == Flatten([i \in 1..Len(text) |-> Utf8(text[i])])

\* The base64 alphabet: A-Z, a-z, 0-9, '+', '/'
Base64Char(v) ==
    IF v < 26 THEN 65 + v
    ELSE IF v < 52 THEN 97 + (v - 26)
    ELSE IF v < 62 THEN 48 + (v - 52)
    ELSE IF v = 62 THEN 43 ELSE 47

Base64Pad == 61

RECURSIVE Base64(_)
\* .toString('base64'): three bytes to four characters, the rest padded with '='
Base64(bytes) ==
    IF Len(bytes) = 0 THEN <<>>
    ELSE IF Len(bytes) = 1
    THEN <<Base64Char(bytes[1] \div 4), Base64Char((bytes[1] % 4) * 16), Base64Pad, Base64Pad>>
    ELSE IF Len(bytes) = 2
    THEN <<Base64Char(bytes[1] \div 4),
           Base64Char((bytes[1] % 4) * 16 + (bytes[2] \div 16)),
           Base64Char((bytes[2] % 16) * 4), Base64Pad>>
    ELSE <<Base64Char(bytes[1] \div 4),
           Base64Char((bytes[1] % 4) * 16 + (bytes[2] \div 16)),
           Base64Char((bytes[2] % 16) * 4 + (bytes[3] \div 64)),
           Base64Char(bytes[3] % 64)>>
         \o Base64(SubSeq(bytes, 4, Len(bytes)))

\* '=?UTF-8?B?' and '?='
EncodedWordStart == <<61, 63, 85, 84, 70, 45, 56, 63, 66, 63>>
EncodedWordEnd   == <<63, 61>>

\* A plausible slip: every text encoded, the ASCII ones too.
encodeEmailHeader_Always(text) ==
    EncodedWordStart \o Base64(Utf8Bytes(text)) \o EncodedWordEnd

\* encodeEmailHeader(text)
encodeEmailHeader(text) ==
    IF \E i \in 1..Len(text) : text[i] > 127
    THEN EncodedWordStart \o Base64(Utf8Bytes(text)) \o EncodedWordEnd
    ELSE text

\* 'Hello' and 'Café'
Hello == <<72, 101, 108, 108, 111>>
Cafe  == <<67, 97, 102, 233>>

\* The subjects tried: the two named ones, and every text of at most MaxSubject
\* characters over 'H', DEL, U+0080, 'é', the euro sign and an emoji.
MaxSubject == 3
SubjectChars == {72, 127, 128, 233, 8364, 128512}
Subjects == {Hello, Cafe} \cup UNION {[1..n -> SubjectChars] : n \in 0..MaxSubject}

NotEncoded == [done |-> FALSE, text |-> <<>>, out |-> <<>>]

\* encodeEmailHeader(subject) is called
EncodeEmailHeader ==
    /\ ~header.done
    /\ \E text \in Subjects :
         header' = [done |-> TRUE, text |-> text, out |-> encodeEmailHeader(text)]
    /\ UNCHANGED <<authVars, domVars, opVars, validation, message, relay, handler, raw, standalone>>

\* to is required; cc and bcc may be absent
NoList == [has |-> FALSE, list |-> <<>>]
Given(l) == [has |-> TRUE, list |-> l]
ToLists == {<<>>, <<UserAtExample>>, <<UserAt>>, <<UserAtExample, UserSpaceExample>>}
OptLists == {NoList, Given(<<>>), Given(<<UserAtExample>>), Given(<<AtExample>>)}
EmailRequests == [to : ToLists, cc : OptLists, bcc : OptLists]

\* The first address of the list that validateEmail rejects, 0 when there is none.
FirstInvalid(list) ==
    IF \A i \in 1..Len(list) : validateEmail(list[i]) THEN 0
    ELSE CHOOSE i \in 1..Len(list) :
           /\ ~validateEmail(list[i])
           /\ \A j \in 1..(i - 1) : validateEmail(list[j])

\* A plausible slip: the blind copies validated before the copies.
InvalidAddress_BccFirst(emailRequest) ==
    IF FirstInvalid(emailRequest.to) # 0
    THEN "Recipient email address is invalid: "
         \o Str(emailRequest.to[FirstInvalid(emailRequest.to)])
    ELSE IF emailRequest.bcc.has /\ FirstInvalid(emailRequest.bcc.list) # 0
    THEN "BCC email address is invalid: "
         \o Str(emailRequest.bcc.list[FirstInvalid(emailRequest.bcc.list)])
    ELSE IF emailRequest.cc.has /\ FirstInvalid(emailRequest.cc.list) # 0
    THEN "CC email address is invalid: "
         \o Str(emailRequest.cc.list[FirstInvalid(emailRequest.cc.list)])
    ELSE Undef

\* The Error createEmailMessage throws on the first invalid address of to, cc, bcc,
\* in this order; Undef when it throws none.
InvalidAddress(emailRequest) ==
    IF FirstInvalid(emailRequest.to) # 0
    THEN "Recipient email address is invalid: "
         \o Str(emailRequest.to[FirstInvalid(emailRequest.to)])
    ELSE IF emailRequest.cc.has /\ FirstInvalid(emailRequest.cc.list) # 0
    THEN "CC email address is invalid: "
         \o Str(emailRequest.cc.list[FirstInvalid(emailRequest.cc.list)])
    ELSE IF emailRequest.bcc.has /\ FirstInvalid(emailRequest.bcc.list) # 0
    THEN "BCC email address is invalid: "
         \o Str(emailRequest.bcc.list[FirstInvalid(emailRequest.bcc.list)])
    ELSE Undef

-----------------------------------------------------------------------------
(* createEmailMessage.  The message is the sequence of the pieces that are joined
   with CRLF: one piece is one line as long as no text of the request holds a
   line break. *)

\* The characters of the codes 32..95
Printable ==
  <<" ", "!", "\"", "#", "$", "%", "&", "'", "(", ")", "*", "+", ",", "-", ".", "/",
    "0", "1", "2", "3", "4", "5", "6", "7", "8", "9", ":", ";", "<", "=", ">", "?",
    "@", "A", "B", "C", "D", "E", "F", "G", "H", "I", "J", "K", "L", "M", "N", "O",
    "P", "Q", "R", "S", "T", "U", "V", "W", "X", "Y", "Z", "[", "\\", "]", "^", "_">>

\* The characters of the codes 97..122
LowerCase ==
  <<"a", "b", "c", "d", "e", "f", "g", "h", "i", "j", "k", "l", "m", "n", "o",
    "p", "q", "r", "s", "t", "u", "v", "w", "x", "y", "z">>

FirstPrintable == 32
FirstLowerCase == 97
Chr(code) ==
    IF code < FirstLowerCase THEN Printable[code - FirstPrintable + 1]
    ELSE LowerCase[code - FirstLowerCase + 1]

\* The string of a sequence of printable ASCII codes
Text(codes) == Str([i \in 1..Len(codes) |-> Chr(codes[i])])

RECURSIVE JoinComma(_)
\* list.join(', ')
JoinComma(list) ==
    IF list = <<>> THEN ""
    ELSE IF Len(list) = 1 THEN Str(list[1])
    ELSE Str(list[1]) \o ", " \o JoinComma(Tail(list))

\* .filter(Boolean) on strings: the empty ones go
FilterBoolean(parts) == SelectSeq(parts, LAMBDA part : part # "")

MimePlain     == "text/plain"
MimeHtml      == "text/html"
MimeMultipart == "multipart/alternative"

\* A plausible slip: two bodies make the message multipart whatever mimeType asks.
EffectiveMimeType_BodiesFirst(emailRequest) ==
    IF Truthy(emailRequest.htmlBody) /\ Truthy(emailRequest.body) THEN MimeMultipart
    ELSE IF Truthy(emailRequest.mimeType) THEN emailRequest.mimeType
    ELSE IF Truthy(emailRequest.htmlBody) THEN MimeHtml
    ELSE MimePlain

\* let mimeType: the content type the message is built for
EffectiveMimeType(emailRequest) ==
    IF Truthy(emailRequest.mimeType) THEN emailRequest.mimeType
    ELSE IF Truthy(emailRequest.htmlBody) /\ Truthy(emailRequest.body) THEN MimeMultipart
    ELSE IF Truthy(emailRequest.htmlBody) THEN MimeHtml
    ELSE MimePlain

\* The boundary: '----=_NextPart_' and Math.random().toString(36).substring(2)
Boundary(random) == "----=_NextPart_" \o random

\* htmlBody || body
HtmlOrBody(emailRequest) ==
    IF Truthy(emailRequest.htmlBody) THEN emailRequest.htmlBody ELSE emailRequest.body

\* The common headers
CommonHeaders(emailRequest) ==
    FilterBoolean(<<
        "From: me",
        "To: " \o JoinComma(emailRequest.to),
        IF emailRequest.cc.has THEN "Cc: " \o JoinComma(emailRequest.cc.list) ELSE "",
        IF emailRequest.bcc.has THEN "Bcc: " \o JoinComma(emailRequest.bcc.list) ELSE "",
        "Subject: " \o Text(encodeEmailHeader(emailRequest.subject)),
        IF Truthy(emailRequest.inReplyTo) THEN "In-Reply-To: " \o emailRequest.inReplyTo ELSE "",
        IF Truthy(emailRequest.inReplyTo) THEN "References: " \o emailRequest.inReplyTo ELSE "",
        "MIME-Version: 1.0" >>)

\* A plausible slip: the fallback given to the plain part instead of the HTML part.
MultipartPieces_PlainFallback(emailRequest, boundary) ==
    << "Content-Type: multipart/alternative; boundary=\"" \o boundary \o "\"",
       "",
       "--" \o boundary,
       "Content-Type: text/plain; charset=UTF-8",
       "Content-Transfer-Encoding: 7bit",
       "",
       IF Truthy(emailRequest.body) THEN emailRequest.body ELSE emailRequest.htmlBody,
       "",
       "--" \o boundary,
       "Content-Type: text/html; charset=UTF-8",
       "Content-Transfer-Encoding: 7bit",
       "",
       emailRequest.htmlBody,
       "",
       "--" \o boundary \o "--" >>

\* A plausible slip: the closing delimiter written like the opening ones.
MultipartPieces_Unclosed(emailRequest, boundary) ==
    << "Content-Type: multipart/alternative; boundary=\"" \o boundary \o "\"",
       "",
       "--" \o boundary,
       "Content-Type: text/plain; charset=UTF-8",
       "Content-Transfer-Encoding: 7bit",
       "",
       emailRequest.body,
       "",
       "--" \o boundary,
       "Content-Type: text/html; charset=UTF-8",
       "Content-Transfer-Encoding: 7bit",
       "",
       HtmlOrBody(emailRequest),
       "",
       "--" \o boundary >>

\* The pieces pushed for multipart/alternative
MultipartPieces(emailRequest, boundary) ==
    << "Content-Type: multipart/alternative; boundary=\"" \o boundary \o "\"",
       "",
       "--" \o boundary,
       "Content-Type: text/plain; charset=UTF-8",
       "Content-Transfer-Encoding: 7bit",
       "",
       emailRequest.body,
       "",
       "--" \o boundary,
       "Content-Type: text/html; charset=UTF-8",
       "Content-Transfer-Encoding: 7bit",
       "",
       HtmlOrBody(emailRequest),
       "",
       "--" \o boundary \o "--" >>

\* The pieces pushed for text/html
HtmlPieces(emailRequest) ==
    << "Content-Type: text/html; charset=UTF-8",
       "Content-Transfer-Encoding: 7bit",
       "",
       HtmlOrBody(emailRequest) >>

\* The pieces pushed for text/plain, and for every other content type
PlainPieces(emailRequest) ==
    << "Content-Type: text/plain; charset=UTF-8",
       "Content-Transfer-Encoding: 7bit",
       "",
       emailRequest.body >>

\* GmailService.createEmailMessage; random is what Math.random() gave, in base 36
createEmailMessage(emailRequest, random) ==
    IF InvalidAddress(emailRequest) # Undef
    THEN [threw |-> TRUE, error |-> InvalidAddress(emailRequest), pieces |-> <<>>]
    ELSE [threw |-> FALSE, error |-> Undef,
          pieces |-> CommonHeaders(emailRequest) \o
                     (IF EffectiveMimeType(emailRequest) = MimeMultipart
                      THEN MultipartPieces(emailRequest, Boundary(random))
                      ELSE IF EffectiveMimeType(emailRequest) = MimeHtml
                      THEN HtmlPieces(emailRequest)
                      ELSE PlainPieces(emailRequest))]

\* The digits Math.random() gives; it gives none when it returns 0.  They are drawn
\* after the request is made, and no text of the requests below holds them.
RandomDigits == {"", "k3x9q0zr1f"}

\* The requests tried
MessageRequests ==
    [to : {<<UserAtExample>>, <<UserAtExample, UserAt>>},
     cc : {NoList, Given(<<>>), Given(<<UserAtExample>>)},
     bcc : {NoList, Given(<<AtExample>>)},
     subject : {Hello, Cafe},
     body : {"", "Hi"},
     htmlBody : {Undef, "", "<b>Hi</b>"},
     mimeType : {Undef, MimePlain, MimeHtml, MimeMultipart},
     inReplyTo : {Undef, "<m1@mail.example.com>"}]

\* The request of a message not built yet
NoRequest == [to |-> <<>>, cc |-> NoList, bcc |-> NoList, subject |-> <<>>, body |-> "",
              htmlBody |-> Undef, mimeType |-> Undef, inReplyTo |-> Undef]

NotBuilt == [done |-> FALSE, random |-> "", threw |-> FALSE, error |-> Undef, pieces |-> <<>>,
             mimeType |-> Undef, body |-> "", htmlBody |-> Undef, multipart |-> FALSE,
             request |-> NoRequest, via |-> "none", supplied |-> Undef]

\* The schema of the send_email tool, applied to the arguments of a call:
\* mimeType: z.enum([...]).optional().default('text/plain')
sendEmailSchema(args) ==
    [args EXCEPT !.mimeType = IF @ = Undef THEN MimePlain ELSE @]

\* createEmailMessage(emailRequest) is called
CreateEmailMessage ==
    /\ ~message.done
    /\ \E emailRequest \in MessageRequests, random \in RandomDigits :
         LET built == createEmailMessage(emailRequest, random)
         IN  message' = [done |-> TRUE, random |-> random, threw |-> built.threw,
                         error |-> built.error, pieces |-> built.pieces,
                         mimeType |-> emailRequest.mimeType, body |-> emailRequest.body,
                         htmlBody |-> emailRequest.htmlBody,
                         multipart |-> EffectiveMimeType(emailRequest) = MimeMultipart,
                         request |-> emailRequest, via |-> "service",
                         supplied |-> emailRequest.mimeType]
    /\ UNCHANGED <<authVars, domVars, opVars, validation, header, relay, handler, raw, standalone>>

\* The send_email tool is called: the schema is applied to the arguments, the
\* handler copies them into an EmailRequest, and sendEmail builds the message.
SendEmailTool ==
    /\ ~message.done
    /\ \E args \in MessageRequests, random \in RandomDigits :
         LET emailRequest == sendEmailSchema(args)
             built == createEmailMessage(emailRequest, random)
         IN  message' = [done |-> TRUE, random |-> random, threw |-> built.threw,
                         error |-> built.error, pieces |-> built.pieces,
                         mimeType |-> emailRequest.mimeType, body |-> emailRequest.body,
                         htmlBody |-> emailRequest.htmlBody,
                         multipart |-> EffectiveMimeType(emailRequest) = MimeMultipart,
                         request |-> emailRequest, via |-> "tool",
                         supplied |-> args.mimeType]
    /\ UNCHANGED <<authVars, domVars, opVars, validation, header, relay, handler, raw, standalone>>

\* GmailService.setUserEmail: a failure leaves null behind
setUserEmail(profile) ==
    IF profile.kind = "ok" /\ profile.data.has THEN profile.data.id ELSE Undef

\* GmailService.sendEmail; known is this.userEmail at the call
sendEmail(known, emailRequest, profile, r) ==
    LET first == IF Truthy(known) THEN <<>> ELSE Sendings("gmail.users.getProfile", profile)
        read  == IF Truthy(known) THEN <<>> ELSE <<profile>>
    IN  IF InvalidAddress(emailRequest) # Undef
        THEN Run(Failure(InvalidAddress(emailRequest), MsgUnknown), first, read)
        ELSE Run(IF r.kind = "err" THEN ApiCaught(r, "Failed to send email")
                 ELSE IF ~HasId(r)
                 THEN Failure("Gmail API did not return a message ID",
                              "The email may not have been sent successfully")
                 ELSE [Success(TRUE, <<[messageId |-> r.data.id]>>)
                          EXCEPT !.details = "Email sent successfully"],
                 first \o Sendings("gmail.users.messages.send", r), read \o <<r>>)

MsgReauthorize ==
    "You need to re-authorize with contacts permissions. Please visit the authorization URL again to grant access to your Google contacts."

\* GmailService.searchPeople
searchPeople(r) ==
    Run(IF r.kind = "err"
        THEN IF r.status = 403 /\ r.apiMsg = "Request had insufficient authentication scopes for contacts"
             THEN Failure(MsgReauthorize, Undef)
             ELSE ApiCaughtPlain(r, "Unknown error occurred while searching contacts")
        ELSE IF ~r.data.has THEN Failure("Failed to search contacts: OK", Undef)
        ELSE Success(TRUE, r.data.list),
        Sendings("people.otherContacts.search", r), <<r>>)

\* GmailService.getEmail
getEmail(r) ==
    Run(IF r.kind = "err" THEN ApiCaughtPlain(r, "Unknown error occurred while getting email")
        ELSE IF ~r.data.has
        THEN Caught(MsgTypeOfUndef, "Unknown error occurred while getting email", Undef)
        ELSE Success(TRUE, <<[responseContent |-> "Thread ID: ..."]>>),
        Sendings("gmail.users.messages.get", r), <<r>>)

\* Whether the callback of one listed message rejects, and with what message.
DetailFails(d) == d.kind = "err" \/ ~d.data.has
DetailMessage(d) == IF d.kind = "err" THEN d.msg ELSE MsgTypeOfUndef

\* GmailService.searchEmails: the listing, then one get per listed message, all
\* started at once; first is the callback whose rejection Promise.all passes on
\* (0 when none rejects).
searchEmails(listed, details, first) ==
    IF listed.kind = "err"
    THEN Run(ApiCaughtPlain(listed, "Unknown error occurred while searching emails"),
             Sendings("gmail.users.messages.list", listed), <<listed>>)
    ELSE IF ~listed.data.has
    THEN Run(Caught(MsgTypeOfUndef, "Unknown error occurred while searching emails", Undef),
             Sendings("gmail.users.messages.list", listed), <<listed>>)
    ELSE LET gets == Flatten([i \in 1..Len(details) |->
                                 Sendings("gmail.users.messages.get", details[i])])
         IN  Run(IF first # 0
                 THEN Caught(DetailMessage(details[first]),
                             "Unknown error occurred while searching emails", Undef)
                 ELSE Success(TRUE, listed.data.list),
                 Sendings("gmail.users.messages.list", listed) \o gets,
                 <<listed>> \o details)

\* GmailService.modifyEmail
modifyEmail(addLabelIds, removeLabelIds, r) ==
    IF Len(addLabelIds) = 0 /\ Len(removeLabelIds) = 0
    THEN Run(Failure("At least one of addLabelIds or removeLabelIds must be provided", Undef),
             <<>>, <<>>)
    ELSE Run(IF r.kind = "err"
             THEN ApiCaughtPlain(r, "Unknown error occurred while modifying email")
             ELSE Success(TRUE, <<[messageId |-> "m1"]>>),
             Sendings("gmail.users.messages.modify", r), <<r>>)

-----------------------------------------------------------------------------
(* Invocations of the Drive, Docs and Gmail wrapper methods *)

IdResults == ApiResults(IdData)

\* How many records a listing returns at most.
MaxMessages == 2

MessageIds == <<[id |-> "m1"], [id |-> "m2"], [id |-> "m3"], [id |-> "m4"]>>
Listing(n) == [has |-> TRUE, id |-> Undef, list |-> SubSeq(MessageIds, 1, n)]
ListResults == ApiResults({NoData} \cup {Listing(n) : n \in 0..MaxMessages})
DetailResults == ApiResults({NoData, [has |-> TRUE, id |-> "id-1", list |-> <<>>]})

\* A method of a Google service ran to its return; this.userEmail is untouched.
GoogleReturns(svc, op, args, run) == Returns(svc, op, args, run) /\ UNCHANGED userEmail

UploadFile ==
    /\ outcome = "idle"
    /\ \E source \in {"url", "base64"}, validBase64 \in BOOLEAN :
         \E dl \in IF source = "url" THEN DownloadResults ELSE {NotCalled} :
           \E r \in IF (source = "url" /\ dl.kind = "resp" /\ dl.ok)
                       \/ (source # "url" /\ validBase64)
                    THEN IdResults ELSE {NotCalled} :
             GoogleReturns("DriveService", "uploadFile",
                           [source |-> source, validBase64 |-> validBase64],
                           uploadFile(source, validBase64, dl, r))

ListFiles ==
    /\ outcome = "idle"
    /\ \E r \in ListResults : GoogleReturns("DriveService", "listFiles", <<>>, listFiles(r))

CreateFolder ==
    /\ outcome = "idle"
    /\ \E r \in IdResults : GoogleReturns("DriveService", "createFolder", <<>>, createFolder(r))

DeleteFile ==
    /\ outcome = "idle"
    /\ \E r \in BareResults : GoogleReturns("DriveService", "deleteFile", <<>>, deleteFile(r))

GetFileMetadata ==
    /\ outcome = "idle"
    /\ \E r \in IdResults : GoogleReturns("DriveService", "getFileMetadata", <<>>, getFileMetadata(r))

DownloadFile ==
    /\ outcome = "idle"
    /\ \E meta \in DetailResults :
         \E media \in IF meta.kind = "ok" /\ meta.data.has THEN DetailResults ELSE {NotCalled} :
           GoogleReturns("DriveService", "downloadFile", <<>>, downloadFile(meta, media))

UpdateFile ==
    /\ outcome = "idle"
    /\ \E withContent \in BOOLEAN, validBase64 \in BOOLEAN :
         \E r \in IF withContent /\ ~validBase64 THEN {NotCalled} ELSE IdResults :
           GoogleReturns("DriveService", "updateFile",
                         [withContent |-> withContent, validBase64 |-> validBase64],
                         updateFile(withContent, validBase64, r))

CopyFile ==
    /\ outcome = "idle"
    /\ \E r \in IdResults : GoogleReturns("DriveService", "copyFile", <<>>, copyFile(r))
PermissionTypes == {"user", "group", "domain", "anyone"}

ShareFile ==
    /\ outcome = "idle"
    /\ \E type \in PermissionTypes, emailAddress \in {Undef, "a@b.com"},
          domain \in {Undef, "b.com"} :
         \E r \in IF (type \in {"user", "group"} /\ ~Truthy(emailAddress))
                     \/ (type = "domain" /\ ~Truthy(domain))
                  THEN {NotCalled} ELSE IdResults :
           GoogleReturns("DriveService", "shareFile",
                         [type |-> type, emailAddress |-> emailAddress, domain |-> domain],
                         shareFile(type, emailAddress, domain, r))

CreateDocument ==
    /\ outcome = "idle"
    /\ \E content \in Texts, folder_id \in Texts, created \in IdResults :
         \E inserted \in IF HasId(created) /\ NonBlank(content) THEN BareResults ELSE {NotCalled} :
           \E moved \in IF HasId(created) /\ NonBlank(folder_id) THEN BareResults ELSE {NotCalled} :
             GoogleReturns("DocsService", "createDocument",
                           [content |-> content, folder_id |-> folder_id],
                           createDocument(content, folder_id, created, inserted, moved))

GetDocumentContent ==
    /\ outcome = "idle"
    /\ \E r \in IdResults : GoogleReturns("DocsService", "getDocumentContent", <<>>, getDocumentContent(r))

AppendText ==
    /\ outcome = "idle"
    /\ \E hasLocation \in BOOLEAN :
         \E doc \in IF hasLocation THEN {NotCalled} ELSE IdResults :
           \E updated \in IF hasLocation \/ HasId(doc) THEN BareResults ELSE {NotCalled} :
             GoogleReturns("DocsService", "appendText", [hasLocation |-> hasLocation],
                           appendText(hasLocation, doc, updated))

ReplaceText ==
    /\ outcome = "idle"
    /\ \E r \in IdResults : GoogleReturns("DocsService", "replaceText", <<>>, replaceText(r))

CopyDocument ==
    /\ outcome = "idle"
    /\ \E r \in IdResults : GoogleReturns("DocsService", "copyDocument", <<>>, copyDocument(r))

ShareDocument ==
    /\ outcome = "idle"
    /\ \E permission \in IdResults :
         \E file \in IF permission.kind = "ok" /\ permission.data.has
                     THEN DetailResults ELSE {NotCalled} :
           GoogleReturns("DocsService", "shareDocument", <<>>, shareDocument(permission, file))

\* new GmailService(config): private userEmail: string | null = null
NewGmailService ==
    /\ outcome = "idle"
    /\ Truthy(userEmail)
    /\ userEmail' = Undef
    /\ UNCHANGED <<call, sent, env, outcome, inflight, settled, authVars, domVars, otherVars>>

SendEmail ==
    /\ outcome = "idle"
    /\ \E emailRequest \in EmailRequests :
         \E profile \in IF Truthy(userEmail) THEN {NotCalled} ELSE IdResults :
           \E r \in IF InvalidAddress(emailRequest) # Undef THEN {NotCalled} ELSE IdResults :
             /\ Returns("GmailService", "sendEmail", emailRequest,
                        sendEmail(userEmail, emailRequest, profile, r))
             /\ userEmail' = IF Truthy(userEmail) THEN userEmail ELSE setUserEmail(profile)

SearchPeople ==
    /\ outcome = "idle"
    /\ \E r \in ListResults : GoogleReturns("GmailService", "searchPeople", <<>>, searchPeople(r))

GetEmail ==
    /\ outcome = "idle"
    /\ \E r \in DetailResults : GoogleReturns("GmailService", "getEmail", <<>>, getEmail(r))

SearchEmails ==
    /\ outcome = "idle"
    /\ \E listed \in ListResults :
         \E details \in IF listed.kind = "ok" /\ listed.data.has
                        THEN [1..Len(listed.data.list) -> DetailResults] ELSE {<<>>} :
           \E first \in IF \E i \in 1..Len(details) : DetailFails(details[i])
                        THEN {i \in 1..Len(details) : DetailFails(details[i])} ELSE {0} :
             GoogleReturns("GmailService", "searchEmails", [first |-> first],
                           searchEmails(listed, details, first))

LabelLists == {<<>>, <<"UNREAD">>}

ModifyEmail ==
    /\ outcome = "idle"
    /\ \E addLabelIds \in LabelLists, removeLabelIds \in LabelLists :
         \E r \in IF Len(addLabelIds) = 0 /\ Len(removeLabelIds) = 0
                  THEN {NotCalled} ELSE BareResults :
           GoogleReturns("GmailService", "modifyEmail",
                         [addLabelIds |-> addLabelIds, removeLabelIds |-> removeLabelIds],
                         modifyEmail(addLabelIds, removeLabelIds, r))

\* The tool handler turns the envelope into its reply and is done; a fetch still out
\* has nobody left to read it.  The service object, and this.userEmail, may live on.
Reply ==
    /\ outcome = "returned"
    /\ call' = NoCall
    /\ sent' = <<>>
    /\ env' = NoEnv
    /\ outcome' = "idle"
    /\ inflight' = {}
    /\ settled' = NoneSettled
    /\ UNCHANGED <<userEmail, authVars, domVars, otherVars>>

-----------------------------------------------------------------------------
(* The specifications *)

NotNormalized == [ok |-> FALSE, err |-> Undef]

-----------------------------------------------------------------------------
(* The call relay wrapper: one server made by createMcpServer, its remoteClient and
   the invocations of its two tools.  An invocation is suspended at each await, and
   the others run meanwhile. *)

\* The invocations followed
MaxInvocations == 2
Invocations == 1..MaxInvocations

\* let remoteClient: Client | null = null
NoClient == 0

RelayTools == {"make_call", "get_conversation"}

\* What the remote tool answers: a result without a first text block, or one whose
\* first block is text that is not JSON, or JSON without a truthy success and data,
\* or JSON with both
RemoteContents == {"no text block", "text, not JSON", "JSON, no success", "JSON, success and data"}

\* `Failed to make call: ${message}`, `Failed to get conversation: ${message}`
FailedText(tool) ==
    IF tool = "make_call" THEN "Failed to make call" ELSE "Failed to get conversation"

\* One invocation: where it is, the client it got, whether its callTool was sent, how
\* the connects of its createRemoteClient ended,
\* the content the remote tool answered, the posts to the conversation API and how
\* the last one ended, and what the handler returned.
NotInvoked == [pc |-> "idle", tool |-> Undef, client |-> NoClient, reached |-> FALSE,
               http |-> "none", sse |-> "none", content |-> "none",
               posts |-> 0, post |-> "none", returned |-> "none"]

NoRelay == [remoteClient |-> NoClient, calls |-> 0, created |-> 0,
            inv |-> [i \in Invocations |-> NotInvoked]]

\* A tool is invoked: the handler calls getRemoteClient, which calls
\* createRemoteClient and awaits it when remoteClient is null, and hands out
\* remoteClient otherwise.  createRemoteClient starts with the streamable HTTP
\* transport.
RelayInvoke ==
    /\ \E i \in Invocations, tool \in RelayTools :
         /\ relay.inv[i].pc = "idle"
         /\ relay' =
              IF relay.remoteClient = NoClient
              THEN [relay EXCEPT !.calls = @ + 1,
                                 !.inv[i] = [@ EXCEPT !.pc = "connecting", !.tool = tool]]
              ELSE [relay EXCEPT !.inv[i] = [@ EXCEPT !.pc = "calling", !.tool = tool,
                                                      !.client = relay.remoteClient]]
    /\ UNCHANGED <<authVars, domVars, opVars, validation, header, message, handler, raw, standalone>>

\* A plausible slip: no fallback, the failure of the first connect is the end.
RelayConnect_NoFallback ==
    /\ \E i \in Invocations, connected \in BOOLEAN :
         /\ relay.inv[i].pc = "connecting"
         /\ relay' =
              IF connected
              THEN [relay EXCEPT !.created = @ + 1,
                                 !.remoteClient = relay.created + 1,
                                 !.inv[i] = [@ EXCEPT !.pc = "calling", !.http = "ok",
                                                      !.client = relay.created + 1]]
              ELSE [relay EXCEPT !.inv[i] =
                       [@ EXCEPT !.pc = "done", !.http = "failed",
                                 !.returned = FailedText(relay.inv[i].tool)]]
    /\ UNCHANGED <<authVars, domVars, opVars, validation, header, message, handler, raw, standalone>>

\* The connect over streamable HTTP settles: createRemoteClient returns the client,
\* and getRemoteClient stores it in remoteClient and returns it; or the catch makes a
\* new client and starts the connect over SSE.
RelayConnect ==
    /\ \E i \in Invocations, connected \in BOOLEAN :
         /\ relay.inv[i].pc = "connecting"
         /\ relay' =
              IF connected
              THEN [relay EXCEPT !.created = @ + 1,
                                 !.remoteClient = relay.created + 1,
                                 !.inv[i] = [@ EXCEPT !.pc = "calling", !.http = "ok",
                                                      !.client = relay.created + 1]]
              ELSE [relay EXCEPT !.inv[i] = [@ EXCEPT !.pc = "fallback", !.http = "failed"]]
    /\ UNCHANGED <<authVars, domVars, opVars, validation, header, message, handler, raw, standalone>>

\* The connect over SSE settles: the client is returned and stored as above, or
\* createRemoteClient rejects, remoteClient stays null and the handler's catch
\* returns its failure text.
RelayConnectSse ==
    /\ \E i \in Invocations, connected \in BOOLEAN :
         /\ relay.inv[i].pc = "fallback"
         /\ relay' =
              IF connected
              THEN [relay EXCEPT !.created = @ + 1,
                                 !.remoteClient = relay.created + 1,
                                 !.inv[i] = [@ EXCEPT !.pc = "calling", !.sse = "ok",
                                                      !.client = relay.created + 1]]
              ELSE [relay EXCEPT !.inv[i] =
                       [@ EXCEPT !.pc = "done", !.sse = "failed",
                                 !.returned = FailedText(relay.inv[i].tool)]]
    /\ UNCHANGED <<authVars, domVars, opVars, validation, header, message, handler, raw, standalone>>

\* client.callTool settles.  When it rejects the handler returns its failure text.
\* make_call, when the first block is text that parses to a truthy success and data,
\* posts the call's data to the conversation API and awaits that; in every other case
\* (a parse error is caught and logged) the handler returns result.content.
RelayCallTool ==
    /\ \E i \in Invocations, rejected \in BOOLEAN, content \in RemoteContents :
         /\ relay.inv[i].pc = "calling"
         /\ relay' = [relay EXCEPT !.inv[i] =
              IF rejected
              THEN [@ EXCEPT !.reached = TRUE,
                             !.pc = "done", !.content = "rejected",
                             !.returned = FailedText(relay.inv[i].tool)]
              ELSE IF relay.inv[i].tool = "make_call" /\ content = "JSON, success and data"
              THEN [@ EXCEPT !.reached = TRUE,
                             !.pc = "posting", !.content = content, !.posts = @ + 1]
              ELSE [@ EXCEPT !.reached = TRUE,
                             !.pc = "done", !.content = content, !.returned = content]]
    /\ UNCHANGED <<authVars, domVars, opVars, validation, header, message, handler, raw, standalone>>

\* A plausible slip: a post that fails at the network level reaches the outer catch.
RelayPost_FailureSurfaces ==
    /\ \E i \in Invocations, answer \in {"ok", "not ok", "network failure"} :
         /\ relay.inv[i].pc = "posting"
         /\ relay' = [relay EXCEPT !.inv[i] =
              [@ EXCEPT !.pc = "done", !.post = answer,
                        !.returned = IF answer = "network failure"
                                     THEN FailedText(relay.inv[i].tool)
                                     ELSE relay.inv[i].content]]
    /\ UNCHANGED <<authVars, domVars, opVars, validation, header, message, handler, raw, standalone>>

\* The post to the conversation API settles: a 2xx answer and a non-2xx answer are
\* logged, a rejection is caught and logged, and the handler returns result.content.
RelayPost ==
    /\ \E i \in Invocations, answer \in {"ok", "not ok", "network failure"} :
         /\ relay.inv[i].pc = "posting"
         /\ relay' = [relay EXCEPT !.inv[i] =
              [@ EXCEPT !.pc = "done", !.post = answer,
                        !.returned = relay.inv[i].content]]
    /\ UNCHANGED <<authVars, domVars, opVars, validation, header, message, handler, raw, standalone>>

-----------------------------------------------------------------------------
(* The tool handlers of the Shopify, Drive, Docs and Gmail servers.  Each one calls
   the resolver of its server on the context the server was created with, returns
   the resolver's error text when it got one, and otherwise calls one method of a
   provider wrapper and reports its envelope. *)

Tools ==
    [shopify |-> {"create_product", "list_products", "get_product_info",
                  "create_custom_collection", "create_smart_collection",
                  "list_collections", "create_order", "create_draft_order",
                  "get_order_info", "list_customers", "create_customer",
                  "create_fulfillment"},
     drive   |-> {"upload_file", "list_files", "create_folder", "delete_file",
                  "get_file_metadata", "download_file", "update_file", "copy_file",
                  "share_file"},
     docs    |-> {"create_document", "get_document_content", "append_text",
                  "replace_text", "copy_document", "share_document"},
     gmail   |-> {"send_email", "get_people", "get_email", "search_emails",
                  "modify_email"}]

Servers == DOMAIN Tools

\* The resolver a server's handlers call
Resolver(server, a) ==
    CASE server = "shopify" -> createShopifyService(a)
      [] server = "drive"   -> createDriveService(a)
      [] server = "docs"    -> createDocsService(a)
      [] server = "gmail"   -> createGmailService(a)

\* A plausible slip: a second block for the details.
ErrorReply_TwoBlocks(result) ==
    <<[type |-> "text", text |-> result.error],
      [type |-> "text", text |-> <<"No additional details">>]>>

\* return { content: [{ type: "text", text: service.error }] }
ErrorReply(result) == <<[type |-> "text", text |-> result.error]>>

\* The reply made from the envelope of the method: its data, or its error and details
EnvelopeReply(tool, success) ==
    <<[type |-> "text",
       text |-> IF success THEN <<"JSON.stringify(result.data)">>
                ELSE <<"Failed: ", tool, "result.error", "result.details">>]>>

\* The requests one method sends to the provider: none when it rejects its
\* arguments itself, else one or more
MethodRequests == 0..2

NotHandling == [pc |-> "idle", server |-> Undef, tool |-> Undef, result |-> NoResult,
                content |-> <<>>, requests |-> 0]

\* A handler is invoked and calls its resolver, which sends nothing.  On an error
\* object it returns the error; a thrown Error leaves the handler; with a service
\* it calls the method and awaits it.
HandlerResolves ==
    /\ handler.pc = "idle"
    /\ \E server \in Servers, a \in AuthContexts :
         \E tool \in Tools[server] :
            LET result == Resolver(server, a)
            IN  handler' =
                  [pc |-> CASE result.kind = "error" -> "returned"
                            [] result.kind = "throw" -> "thrown"
                            [] OTHER -> "calling",
                   server |-> server, tool |-> tool, result |-> result,
                   content |-> IF result.kind = "error" THEN ErrorReply(result) ELSE <<>>,
                   requests |-> 0]
    /\ UNCHANGED <<authVars, domVars, opVars, validation, header, message, relay, raw, standalone>>

\* The method returns its envelope and the handler replies with it.
HandlerReplies ==
    /\ handler.pc = "calling"
    /\ \E n \in MethodRequests, success \in BOOLEAN :
         handler' = [handler EXCEPT !.pc = "returned",
                                    !.requests = n,
                                    !.content = EnvelopeReply(handler.tool, success)]
    /\ UNCHANGED <<authVars, domVars, opVars, validation, header, message, relay, raw, standalone>>

-----------------------------------------------------------------------------
(* The raw value of sendEmail.  The message is the sequence of its lines, a line is
   the sequence of its code points. *)

CR == 13
LF == 10

RECURSIVE JoinCrlf(_)
\* emailParts.join('\r\n')
JoinCrlf(lines) ==
    IF lines = <<>> THEN <<>>
    ELSE IF Len(lines) = 1 THEN lines[1]
    ELSE lines[1] \o <<CR, LF>> \o JoinCrlf(Tail(lines))

\* .replace(/\+/g, '-').replace(/\//g, '_')
UrlSafe(chars) ==
    [i \in 1..Len(chars) |-> IF chars[i] = 43 THEN 45
                             ELSE IF chars[i] = 47 THEN 95 ELSE chars[i]]

RECURSIVE StripPadding(_)
\* .replace(/=+$/, '')
StripPadding(chars) ==
    IF chars # <<>> /\ chars[Len(chars)] = Base64Pad
    THEN StripPadding(SubSeq(chars, 1, Len(chars) - 1))
    ELSE chars

\* A plausible slip: the '/' left as it is.
encodeRaw_SlashKept(text) ==
    StripPadding([i \in 1..Len(Base64(Utf8Bytes(text))) |->
                     IF Base64(Utf8Bytes(text))[i] = 43 THEN 45
                     ELSE Base64(Utf8Bytes(text))[i]])

\* Buffer.from(message).toString('base64') and the three replacements
encodeRaw(text) == StripPadding(UrlSafe(Base64(Utf8Bytes(text))))

\* The messages tried: at most MaxLines lines of at most MaxLineLength characters
\* over '>', '?' and 'é'
MaxLines == 2
MaxLineLength == 2
LineChars == {62, 63, 233}
RawLines == UNION {[1..n -> LineChars] : n \in 0..MaxLineLength}
RawMessages == UNION {[1..n -> RawLines] : n \in 1..MaxLines}

NotEncodedRaw == [done |-> FALSE, lines |-> <<>>, value |-> <<>>]

\* sendEmail encodes the message createEmailMessage returned
EncodeRaw ==
    /\ ~raw.done
    /\ \E lines \in RawMessages :
         raw' = [done |-> TRUE, lines |-> lines, value |-> encodeRaw(JoinCrlf(lines))]
    /\ UNCHANGED <<authVars, domVars, opVars, validation, header, message, relay, handler, standalone>>

-----------------------------------------------------------------------------
(* The standalone Gmail server "mcp-server-gmail": its two tools ask the auth server
   for the user's token on every invocation.  An invocation is a handler that runs
   from one await to the next; invocations interleave at their awaits. *)

\* How many invocations are followed.
MaxGmailCalls == 2
GmailCalls == 1..MaxGmailCalls

GmailTools == {"gmail_send_email", "gmail_search_people"}

\* gmailService.sendEmail(emailRequest), gmailService.searchPeople(searchRequest)
ServiceOperation(tool) == IF tool = "gmail_send_email" THEN "sendEmail" ELSE "searchPeople"

\* What axios.post gives the auth service: a rejection, or a body with its status
\* and, when it has data, the field read from data.data
AuthAnswers(values) ==
    [kind : {"rejected"}, status : {Undef}, hasData : {FALSE}, value : {Undef}]
    \cup [kind : {"resp"}, status : {"success", "error"}, hasData : {FALSE}, value : {Undef}]
    \cup [kind : {"resp"}, status : {"success", "error"}, hasData : {TRUE}, value : values]

AccessTokens == {Undef, "", "ya29.token"}
AuthUrls == {Undef, "", "https://auth.example/authorize?u=1"}

\* AuthService.getValidToken: {valid: true, accessToken: data.data.accessToken} on
\* status "success"; {valid: false, error} otherwise and in the catch, which also
\* catches the TypeError of reading data.data.accessToken when data.data is missing
getValidToken(answer) ==
    IF answer.kind = "resp" /\ answer.status = "success" /\ answer.hasData
    THEN [valid |-> TRUE, accessToken |-> answer.value]
    ELSE [valid |-> FALSE, accessToken |-> Undef]

\* AuthService.requestAuthorization: {authUrl: data.data.authUrl} on status
\* "success", {error} otherwise and in the catch
requestAuthorization(answer) ==
    IF answer.kind = "resp" /\ answer.status = "success" /\ answer.hasData
    THEN [authUrl |-> answer.value]
    ELSE [authUrl |-> Undef]

AuthorizationText(authUrl) ==
    "Authentication required. Please visit this URL to authorize Gmail access: "
    \o (IF Truthy(authUrl) THEN authUrl ELSE "Unable to generate authorization URL")

NoAccessTokenText == "Authentication failed: No access token available"
NotConnectedText == "Failed to connect to Gmail. Please check your authentication."

\* The reply after the service operation returned
GmailReplyText(tool, success) ==
    IF tool = "gmail_send_email"
    THEN IF success THEN "Email sent successfully! Message ID: m1"
         ELSE "Failed to send email: Failed to send email. Details: No additional details"
    ELSE IF success THEN "{\"results\":[]}"
         ELSE "Failed to search people: Unknown error occurred while searching contacts."

\* One invocation: the await it is at, the calls it made so far in their order, what
\* getValidToken and validateConnection returned, and its reply
NoGmailCall == [pc |-> "idle", tool |-> Undef, calls |-> <<>>,
                token |-> [valid |-> FALSE, accessToken |-> Undef],
                isConnected |-> FALSE, reply |-> Undef]

\* A tool is invoked: const authResult = await authService.getValidToken(userId)
GmailInvoke ==
    /\ \E i \in GmailCalls, tool \in GmailTools :
         /\ standalone[i].pc = "idle"
         /\ standalone' = [standalone EXCEPT ![i] =
              [@ EXCEPT !.pc = "getValidToken", !.tool = tool,
                        !.calls = <<"getValidToken">>]]
    /\ UNCHANGED <<authVars, domVars, opVars, validation, header, message, relay, handler, raw>>

\* A plausible slip: the service is made of whatever a valid answer carries.
GmailTokenReturns_TokenUnchecked ==
    /\ \E i \in GmailCalls, answer \in AuthAnswers(AccessTokens) :
         /\ standalone[i].pc = "getValidToken"
         /\ LET authResult == getValidToken(answer)
            IN  standalone' = [standalone EXCEPT ![i] =
                  IF ~authResult.valid
                  THEN [@ EXCEPT !.pc = "requestAuthorization", !.token = authResult,
                                 !.calls = Append(@, "requestAuthorization")]
                  ELSE [@ EXCEPT !.pc = "validateConnection", !.token = authResult,
                                 !.calls = @ \o <<"new GmailService", "validateConnection">>]]
    /\ UNCHANGED <<authVars, domVars, opVars, validation, header, message, relay, handler, raw>>

\* getValidToken returned.  if (!authResult.valid) the handler awaits
\* requestAuthorization; if (!authResult.accessToken) it replies; otherwise it makes
\* a GmailService of the access token and awaits its validateConnection.
GmailTokenReturns ==
    /\ \E i \in GmailCalls, answer \in AuthAnswers(AccessTokens) :
         /\ standalone[i].pc = "getValidToken"
         /\ LET authResult == getValidToken(answer)
            IN  standalone' = [standalone EXCEPT ![i] =
                  IF ~authResult.valid
                  THEN [@ EXCEPT !.pc = "requestAuthorization", !.token = authResult,
                                 !.calls = Append(@, "requestAuthorization")]
                  ELSE IF ~Truthy(authResult.accessToken)
                  THEN [@ EXCEPT !.pc = "done", !.token = authResult,
                                 !.reply = NoAccessTokenText]
                  ELSE [@ EXCEPT !.pc = "validateConnection", !.token = authResult,
                                 !.calls = @ \o <<"new GmailService", "validateConnection">>]]
    /\ UNCHANGED <<authVars, domVars, opVars, validation, header, message, relay, handler, raw>>

\* requestAuthorization returned: the reply carries authUrlResult.authUrl or, when
\* that is falsy, the text that none could be generated
GmailAuthorizationReturns ==
    /\ \E i \in GmailCalls, answer \in AuthAnswers(AuthUrls) :
         /\ standalone[i].pc = "requestAuthorization"
         /\ standalone' = [standalone EXCEPT ![i] =
              [@ EXCEPT !.pc = "done",
                        !.reply = AuthorizationText(requestAuthorization(answer).authUrl)]]
    /\ UNCHANGED <<authVars, domVars, opVars, validation, header, message, relay, handler, raw>>

\* validateConnection returned: if (!isConnected) the handler replies, otherwise it
\* awaits the service operation of its tool
GmailConnectionReturns ==
    /\ \E i \in GmailCalls, isConnected \in BOOLEAN :
         /\ standalone[i].pc = "validateConnection"
         /\ standalone' = [standalone EXCEPT ![i] =
              IF isConnected
              THEN [@ EXCEPT !.pc = "operation", !.isConnected = TRUE,
                             !.calls = Append(@, ServiceOperation(standalone[i].tool))]
              ELSE [@ EXCEPT !.pc = "done", !.reply = NotConnectedText]]
    /\ UNCHANGED <<authVars, domVars, opVars, validation, header, message, relay, handler, raw>>

\* The service operation returned its envelope
GmailOperationReturns ==
    /\ \E i \in GmailCalls, success \in BOOLEAN :
         /\ standalone[i].pc = "operation"
         /\ standalone' = [standalone EXCEPT ![i] =
              [@ EXCEPT !.pc = "done",
                        !.reply = GmailReplyText(standalone[i].tool, success)]]
    /\ UNCHANGED <<authVars, domVars, opVars, validation, header, message, relay, handler, raw>>

Init ==
    /\ auth = NoAuth
    /\ res = NoResult
    /\ domIn = NoName
    /\ domOut = NotNormalized
    /\ domGen = 0
    /\ call = NoCall
    /\ sent = <<>>
    /\ env = NoEnv
    /\ outcome = "idle"
    /\ inflight = {}
    /\ settled = NoneSettled
    /\ userEmail = Undef
    /\ validation = NotValidated
    /\ header = NotEncoded
    /\ message = NotBuilt
    /\ relay = NoRelay
    /\ handler = NotHandling
    /\ raw = NotEncodedRaw
    /\ standalone = [i \in GmailCalls |-> NoGmailCall]

\* The auth resolvers
NextAuth == ResolveShopify \/ ResolveDrive \/ ResolveDocs \/ ResolveGmail \/ RequestEnds

\* The normalisation of store names
NextDomain == NormalizeStoreName \/ NormalizeAgain

\* The wrapper methods
Next ==
    \/ CreateProduct \/ ListProducts \/ GetProductInfo
    \/ ListCustomers \/ CreateCustomer
    \/ CreateCustomCollection \/ CreateSmartCollection
    \/ ListCollectionsStart \/ ListCollectionsSettle
    \/ CreateOrder \/ CreateDraftOrder \/ GetOrderInfo
    \/ CreateFulfillment \/ UpdateFulfillmentTracking \/ CancelFulfillment
    \/ ListFiles \/ GetFileMetadata \/ UploadFile \/ CreateFolder \/ DeleteFile
    \/ DownloadFile \/ UpdateFile \/ CopyFile \/ ShareFile
    \/ CreateDocument \/ GetDocumentContent \/ AppendText \/ ReplaceText
    \/ CopyDocument \/ ShareDocument
    \/ NewGmailService \/ SendEmail \/ SearchPeople \/ GetEmail \/ SearchEmails
    \/ ModifyEmail
    \/ Reply

SpecAuth == Init /\ [][NextAuth]_vars

SpecDomain == Init /\ [][NextDomain]_vars

\* The validation of addresses
SpecAddress == Init /\ [][ValidateEmail]_vars

\* The encoding of header texts
SpecHeader == Init /\ [][EncodeEmailHeader]_vars

\* The building of messages
NextMessage == CreateEmailMessage \/ SendEmailTool

SpecMessage == Init /\ [][NextMessage]_vars

\* The encoding of the message for the send call
SpecRaw == Init /\ [][EncodeRaw]_vars

\* The standalone Gmail server
NextGmail ==
    \/ GmailInvoke \/ GmailTokenReturns \/ GmailAuthorizationReturns
    \/ GmailConnectionReturns \/ GmailOperationReturns

SpecGmail == Init /\ [][NextGmail]_vars

\* The call relay wrapper
NextRelay == RelayInvoke \/ RelayConnect \/ RelayConnectSse \/ RelayCallTool \/ RelayPost

SpecRelay == Init /\ [][NextRelay]_vars

\* The tool handlers
NextHandler == HandlerResolves \/ HandlerReplies

SpecHandler == Init /\ [][NextHandler]_vars

Spec == Init /\ [][Next]_vars

-----------------------------------------------------------------------------
(* Properties of the auth resolvers, checked under SpecAuth *)

\* C1 as claimed: a resolver constructs a service only from a context that carries a
\* non-empty accessToken and is not marked valid=false.
C1_ServiceOnlyFromValidToken ==
    res.kind = "service" =>
        /\ auth.present
        /\ Truthy(auth.accessToken)
        /\ auth.valid # "false"

\* C2 as claimed: for a context with valid=false that supplies an authUrl, every
\* resolver returns an error whose text contains that authUrl.
C2_ErrorCarriesAuthUrl ==
    (res.kind # "none" /\ auth.present /\ auth.valid = "false" /\ Truthy(auth.authUrl)) =>
        /\ res.kind = "error"
        /\ Contains(res.error, auth.authUrl)

\* C3 as claimed: for a context with valid=true and a non-empty accessToken, every
\* resolver returns a service rather than an error.
C3_ValidContextGivesService ==
    (res.kind # "none" /\ auth.present /\ auth.valid = "true" /\ Truthy(auth.accessToken)) =>
        res.kind = "service"

\* The store name createShopifyService has to go by: the header, else the metadata.
C3_StoreName ==
    IF auth.headerDomain # NoName /\ auth.headerDomain # <<>>
    THEN auth.headerDomain ELSE auth.metaName

\* C3 as amended: for a context with valid=true and a non-empty accessToken, the
\* Drive, Docs and Gmail resolvers return a service holding that token; the Shopify
\* resolver returns one, holding the token and the normalised domain, when the header
\* or the metadata names a store whose name normalises, and returns the missing-domain
\* error when neither names a store.
C3_ValidContextGivesServiceGivenStore ==
    (res.kind # "none" /\ auth.present /\ auth.valid = "true" /\ Truthy(auth.accessToken)) =>
        /\ res.by \in {"drive", "docs", "gmail"} =>
             res.kind = "service" /\ res.accessToken = auth.accessToken
        /\ (res.by = "shopify" /\ C3_StoreName \in {NoName, <<>>}) =>
             res.kind = "error" /\ res.error = <<MsgShopifyMissingDomain>>
        /\ (res.by = "shopify" /\ C3_StoreName \notin {NoName, <<>>}
            /\ normalizeShopifyDomain(C3_StoreName).ok) =>
             /\ res.kind = "service"
             /\ res.accessToken = auth.accessToken
             /\ res.shopDomain = normalizeShopifyDomain(C3_StoreName).v

\* C3's case: the Shopify resolver built a service for a store named only by the
\* metadata of a valid context.
C3_Witness ==
    /\ res.by = "shopify"
    /\ res.kind = "service"
    /\ auth.valid = "true"
    /\ auth.headerDomain = NoName
    /\ auth.metaName = Foo
    /\ res.shopDomain = FooDomain

\* C4 as claimed: createShopifyService never throws; it returns a service or an
\* {error} object, the latter for a valid context with a token whose store name does
\* not match the shop-name pattern or is empty once trimmed.
C4_ShopifyResolverReturns ==
    res.by = "shopify" =>
        /\ res.kind \in {"service", "error"}
        /\ (auth.valid = "true" /\ Truthy(auth.accessToken)
            /\ C3_StoreName \notin {NoName, <<>>}
            /\ ~normalizeShopifyDomain(C3_StoreName).ok) => res.kind = "error"

-----------------------------------------------------------------------------
(* Properties of the normalisation of store names, checked under SpecDomain *)

\* C5: normalizeShopifyDomain is idempotent where it succeeds and its result ends in
\* '.myshopify.com'; 'foo' gives 'foo.myshopify.com', as does
\* 'https://foo.myshopify.com/'; 'foo.myshopify.com' comes back unchanged; '-bad-'
\* fails.
C5_NormalizeIdempotent ==
    /\ domOut.ok => EndsWith(domOut.v, MyshopifySuffix)
    /\ domGen > 0 => (domOut.ok /\ domOut.v = domIn)
    /\ domIn = Foo => (domOut.ok /\ domOut.v = FooDomain)
    /\ domIn = HttpsPrefix \o FooDomain \o <<"/">> => (domOut.ok /\ domOut.v = FooDomain)
    /\ domIn = FooDomain => (domOut.ok /\ domOut.v = FooDomain)
    /\ domIn = <<"-">> \o Bad \o <<"-">> => ~domOut.ok

\* C5's case: the result for 'https://foo.myshopify.com/' has been normalised again,
\* twice.
C5_Witness ==
    /\ domGen = MaxRenormalize
    /\ domOut.ok
    /\ domOut.v = FooDomain

-----------------------------------------------------------------------------
(* Properties of the wrapper methods, checked under Spec *)

ShopifyServices ==
    {"ShopifyService", "CustomerService", "CollectionService", "OrderService",
     "FulfillmentService"}

\* The text each method names its failures by.
OperationText ==
    [createProduct |-> "Failed to create product",
     listProducts |-> "Failed to list products",
     getProductInfo |-> "Failed to get product info",
     listCustomers |-> "Failed to list customers",
     createCustomer |-> "Failed to create customer",
     createCustomCollection |-> "Failed to create custom collection",
     createSmartCollection |-> "Failed to create smart collection",
     listCollections |-> "Failed to list collections",
     createOrder |-> "Failed to create order",
     createDraftOrder |-> "Failed to create draft order",
     getOrderInfo |-> "Failed to get order info",
     createFulfillment |-> "Failed to create fulfillment",
     updateFulfillmentTracking |-> "Failed to update fulfillment tracking",
     cancelFulfillment |-> "Failed to cancel fulfillment",
     uploadFile |-> "Failed to upload file",
     listFiles |-> "Failed to list files",
     createFolder |-> "Failed to create folder",
     deleteFile |-> "Failed to delete file",
     getFileMetadata |-> "Failed to get file metadata",
     downloadFile |-> "Failed to download file",
     updateFile |-> "Failed to update file",
     copyFile |-> "Failed to copy file",
     shareFile |-> "Failed to share file",
     createDocument |-> "Failed to create document",
     getDocumentContent |-> "Failed to get document content",
     appendText |-> "Failed to append text",
     replaceText |-> "Failed to replace text",
     copyDocument |-> "Failed to copy document",
     shareDocument |-> "Failed to share document",
     sendEmail |-> "Failed to send email",
     searchPeople |-> "Unknown error occurred while searching contacts",
     getEmail |-> "Unknown error occurred while getting email",
     searchEmails |-> "Unknown error occurred while searching emails",
     modifyEmail |-> "Unknown error occurred while modifying email"]

\* C6 as claimed: a returned envelope with success=true carries its data and no
\* error, one with success=false a non-empty error and no data; also for a 2xx
\* response whose body lacks the resource key.  (deleteFile's response type declares
\* no payload and is left out.)
C6_EnvelopeShape ==
    (outcome = "returned" /\ call.op # "deleteFile") =>
        /\ env.success => (env.hasData /\ env.error = Undef)
        /\ ~env.success => (env.error \notin {Undef, ""} /\ ~env.hasData)

C7_NonOk(r) == r.kind = "resp" /\ ~r.ok

\* the JSON of the body's errors field when the body has one, else the generic text
C7_Details(r) ==
    IF r.body.parse = "obj" /\ r.body.errors # JUndefined
    THEN JsonStringify(r.body.errors) ELSE MsgUnknown

C7_Reported(label, r) ==
    /\ ~env.success
    /\ env.error = label \o ": " \o r.statusText
    /\ env.details = C7_Details(r)

\* C7 as claimed: whatever the body of a non-2xx response to a Shopify method, the
\* envelope has success=false, error '<label>: <status text>' and as details the JSON
\* of the body's errors when it has any, else the generic text; createCustomer on a
\* 422 with errors {email: ['has already been taken']} reports exactly that.
C7_NonOkReported ==
    (outcome = "returned" /\ call.svc \in ShopifyServices) =>
        /\ call.op # "listCollections" =>
             \A i \in 1..Len(call.results) :
                C7_NonOk(call.results[i]) =>
                    C7_Reported(OperationText[call.op], call.results[i])
        /\ (call.op = "listCollections" /\ C7_NonOk(settled.custom)) =>
             C7_Reported("Failed to fetch custom collections", settled.custom)
        /\ (call.op = "listCollections" /\ settled.custom.kind = "resp" /\ settled.custom.ok
            /\ C7_NonOk(settled.smart)) =>
             C7_Reported("Failed to fetch smart collections", settled.smart)
        /\ (call.op = "createCustomer" /\ C7_NonOk(call.results[1])
            /\ call.results[1].statusText = "Unprocessable Entity"
            /\ call.results[1].body.parse = "obj"
            /\ call.results[1].body.errors = ErrEmailTaken) =>
             /\ env.error = "Failed to create customer: Unprocessable Entity"
             /\ env.details = "{\"email\":[\"has already been taken\"]}"

\* A request failed at the network level, or its response body could not be parsed.
C8_Failed(r) ==
    \/ r.kind = "neterr"
    \/ r.kind = "resp" /\ r.body.parse = "fail"
    \/ r.kind = "err" /\ r.status = 0

\* The message of the exception that failure raises, or the method's fallback text
\* when the message is empty.
C8_Error(r) ==
    LET text == IF r.kind = "resp" THEN MsgJsonSyntax ELSE r.msg
    IN  IF text # "" THEN text ELSE OperationText[call.op]

\* C8 as claimed: every method returns an envelope, and when a request of it failed at
\* the network level or its body could not be parsed, the envelope has success=false
\* and as error the exception's message, or the fallback text when that is empty.
C8_FailureReported ==
    outcome = "returned" =>
        /\ env.success \in BOOLEAN
        /\ call.op # "listCollections" =>
             ((\E i \in 1..Len(call.results) : C8_Failed(call.results[i])) =>
                 /\ ~env.success
                 /\ \E i \in 1..Len(call.results) :
                       C8_Failed(call.results[i]) /\ env.error = C8_Error(call.results[i]))
        /\ call.op = "listCollections" =>
             ((\E w \in {"custom", "smart"} : C8_Failed(settled[w])) =>
                 /\ ~env.success
                 /\ \E w \in {"custom", "smart"} :
                       C8_Failed(settled[w]) /\ env.error = C8_Error(settled[w]))

\* The requests whose failure the method does not drop: all but createDocument's
\* insertion of the content and move to the folder, and sendEmail's getProfile.
C8_Counted(i) ==
    CASE call.op = "createDocument" -> i = 1
      [] call.op = "sendEmail" ->
            /\ i = Len(call.results)
            /\ Len(sent) > 0
            /\ sent[Len(sent)].req = "gmail.users.messages.send"
      [] OTHER -> TRUE

\* C8 as amended: every method returns an envelope, and when a request of it failed
\* for good (after the client's retries) at the network level, or its body could not
\* be parsed, the envelope has success=false and as error the message of the
\* exception the method caught, or the fallback text when that is empty; but the
\* failures of createDocument's insertion and move and of sendEmail's getProfile are
\* dropped and do not fail the method, and searchEmails may report any of the
\* exceptions its concurrent lookups raised.
C8_UndroppedFailureReported ==
    outcome = "returned" =>
        /\ env.success \in BOOLEAN
        /\ call.op \notin {"listCollections", "searchEmails"} =>
             \A i \in 1..Len(call.results) :
                (C8_Counted(i) /\ C8_Failed(call.results[i])) =>
                    (~env.success /\ env.error = C8_Error(call.results[i]))
        /\ call.op = "searchEmails" =>
             ((\E i \in 1..Len(call.results) : C8_Failed(call.results[i])) =>
                 /\ ~env.success
                 /\ \/ env.error = MsgTypeOfUndef
                    \/ \E i \in 1..Len(call.results) :
                          /\ call.results[i].kind = "err"
                          /\ env.error = IF call.results[i].msg # "" THEN call.results[i].msg
                                         ELSE OperationText[call.op])
        /\ call.op = "listCollections" =>
             ((\E w \in {"custom", "smart"} : C8_Failed(settled[w])) =>
                 /\ ~env.success
                 /\ \E w \in {"custom", "smart"} :
                       C8_Failed(settled[w]) /\ env.error = C8_Error(settled[w]))

\* The case C8 as claimed leaves out: createDocument returned success although the
\* insertion of the content failed at the network level.
C8_Witness ==
    /\ outcome = "returned"
    /\ call.op = "createDocument"
    /\ Len(call.results) = 2
    /\ C8_Failed(call.results[2])
    /\ env.success

\* C8's other case: createCustomer reported a fetch that was rejected with an empty
\* message by its fallback text.
C8_WitnessFallback ==
    /\ outcome = "returned"
    /\ call.op = "createCustomer"
    /\ call.results[1].kind = "neterr"
    /\ call.results[1].msg = ""
    /\ env.error = "Failed to create customer"


\* The requests of the invocation: what was sent, a sending that the client repeated
\* on its own counted once.
C9_Requests == Cardinality({i \in 1..Len(sent) : sent[i].attempt = 1})

\* C9 as claimed: an invocation issues exactly one provider request, listCollections
\* exactly two, and no other operation more than one.
C9_OneRequest ==
    outcome = "returned" =>
        C9_Requests = IF call.op = "listCollections" THEN 2 ELSE 1

\* The messages the listing of searchEmails returned.
C9_Listed ==
    IF call.results[1].kind = "ok" /\ call.results[1].data.has
    THEN Len(call.results[1].data.list) ELSE 0

C9_Wanted(t) == IF NonBlank(t) THEN 1 ELSE 0

\* C9, amended: listCollections issues exactly two requests and every operation
\* exactly one, except: the operations that check their input first (getOrderInfo,
\* uploadFile, updateFile, shareFile, modifyEmail, sendEmail) may issue none;
\* getOrderInfo by order_number, uploadFile from a URL, downloadFile, appendText
\* without a location, shareDocument and sendEmail issue at most two, and two when
\* they succeed (sendEmail: one when the sender is already known); createDocument
\* issues at most three, one plus one for a content and one for a folder when it
\* succeeds; searchEmails issues one plus one per listed message.
C9_RequestsByOperation ==
    outcome = "returned" =>
        LET n == C9_Requests
        IN  CASE call.op = "listCollections" -> n = 2
              [] call.op = "getOrderInfo" ->
                    /\ n <= 2
                    /\ Truthy(call.args.order_id) => n = 1
                    /\ (~Truthy(call.args.order_id) /\ ~Truthy(call.args.order_number)) => n = 0
                    /\ (~Truthy(call.args.order_id) /\ Truthy(call.args.order_number)) => n >= 1
                    /\ (~Truthy(call.args.order_id) /\ env.success) => n = 2
              [] call.op = "uploadFile" ->
                    /\ n <= 2
                    /\ call.args.source # "url" => n <= 1
                    /\ call.args.source = "url" => n >= 1
                    /\ env.success => n = IF call.args.source = "url" THEN 2 ELSE 1
              [] call.op \in {"updateFile", "shareFile", "modifyEmail"} ->
                    /\ n <= 1
                    /\ env.success => n = 1
              [] call.op \in {"downloadFile", "shareDocument"} ->
                    /\ n \in 1..2
                    /\ env.success => n = 2
              [] call.op = "appendText" ->
                    /\ n \in 1..2
                    /\ call.args.hasLocation => n = 1
                    /\ (env.success /\ ~call.args.hasLocation) => n = 2
              [] call.op = "createDocument" ->
                    /\ n \in 1..3
                    /\ env.success =>
                         n = 1 + C9_Wanted(call.args.content) + C9_Wanted(call.args.folder_id)
              [] call.op = "sendEmail" ->
                    /\ n <= 2
                    /\ env.success => n >= 1
              [] call.op = "searchEmails" -> n = 1 + C9_Listed
              [] OTHER -> n = 1

\* C9's case: getOrderInfo, given only an order number, returned the order after a
\* search and a fetch.
C9_Witness ==
    /\ outcome = "returned"
    /\ call.op = "getOrderInfo"
    /\ ~Truthy(call.args.order_id)
    /\ env.success
    /\ C9_Requests = 2
    /\ sent = <<ReqSearchOrder, ReqFetchOrder>>

-----------------------------------------------------------------------------
(* Properties of listCollections, checked under Spec *)

C11_CustomError == "Failed to fetch custom collections: " \o settled.custom.statusText
C11_SmartError  == "Failed to fetch smart collections: " \o settled.smart.statusText

\* C11 as claimed: whenever the custom-collections response is non-2xx,
\* listCollections returns success=false with the custom-collection error, whatever
\* became of the smart-collections request; and it returns the smart-collection
\* error only when the custom response is 2xx and the smart response non-2xx.
C11_CustomErrorFirst ==
    (outcome = "returned" /\ call.op = "listCollections") =>
        /\ C7_NonOk(settled.custom) => (~env.success /\ env.error = C11_CustomError)
        /\ (~env.success /\ settled.smart.kind = "resp" /\ env.error = C11_SmartError) =>
              (settled.custom.kind = "resp" /\ settled.custom.ok /\ C7_NonOk(settled.smart))

C12_BothOk ==
    /\ outcome = "returned"
    /\ call.op = "listCollections"
    /\ settled.custom.kind = "resp" /\ settled.custom.ok
    /\ settled.smart.kind = "resp" /\ settled.smart.ok

\* The records a response carries under its key, none when the key is missing.
C12_Source(r) == IF r.body.resource.present THEN r.body.resource.v ELSE <<>>

C12_Reduced(record) ==
    [collection_id |-> record.id, title |-> record.title, handle |-> record.handle]

\* success=true with the custom records, then the smart records, each reduced to
\* identifier, title and handle, in the order the provider gave them
C12_Merged ==
    LET custom == C12_Source(settled.custom)
        smart  == C12_Source(settled.smart)
    IN  /\ env.success
        /\ Len(env.data) = Len(custom) + Len(smart)
        /\ \A i \in 1..Len(custom) : env.data[i] = C12_Reduced(custom[i])
        /\ \A i \in 1..Len(smart) : env.data[Len(custom) + i] = C12_Reduced(smart[i])

\* C12 as claimed: when both collection requests return 2xx, listCollections returns
\* success=true with the custom collections followed by the smart collections, in
\* provider order, nothing dropped, duplicated or reordered.
C12_MergedWhenBothOk == C12_BothOk => C12_Merged

\* C12, amended: the same, when both 2xx responses have bodies that parse to JSON
\* objects (a body that does not parse, or parses to null, ends in the catch).
C12_MergedWhenBothOkObjects ==
    (/\ C12_BothOk
     /\ settled.custom.body.parse = "obj"
     /\ settled.smart.body.parse = "obj") => C12_Merged

\* C12's case: two custom collections and one smart collection were merged.
C12_Witness ==
    /\ C12_BothOk
    /\ env.success
    /\ Len(C12_Source(settled.custom)) = 2
    /\ Len(C12_Source(settled.smart)) = 1
    /\ C12_Source(settled.custom)[1] # C12_Source(settled.custom)[2]
    /\ Len(env.data) = 3

-----------------------------------------------------------------------------
(* Properties of validateEmail, checked under SpecAddress *)

\* The shape local@domain: no white space, a single '@', something before it and
\* something after it.
C13_LocalAtDomain(email) ==
    /\ \A i \in 1..Len(email) : email[i] \notin Whitespace
    /\ \E at \in 2..(Len(email) - 1) :
          /\ email[at] = "@"
          /\ \A i \in 1..Len(email) : email[i] = "@" => i = at

\* what the claim says of its four named addresses
C13_NamedAddresses ==
    /\ validation.email = UserAtExample => validation.accepted
    /\ validation.email \in {UserAt, AtExample, UserSpaceExample} => ~validation.accepted

\* C13 as claimed: validateEmail accepts exactly the strings of the shape
\* local@domain with no whitespace and a single '@'; it accepts 'user@example.com'
\* and rejects 'user@', '@example.com' and 'user example.com'.
C13_AcceptsExactlyLocalAtDomain ==
    validation.done =>
        /\ validation.accepted <=> C13_LocalAtDomain(validation.email)
        /\ C13_NamedAddresses

\* The domain holds a '.' with something before it and something after it.
C13_DottedDomain(email) ==
    \E at \in 1..Len(email), dot \in 1..Len(email) :
        /\ email[at] = "@"
        /\ email[dot] = "."
        /\ at + 1 < dot
        /\ dot < Len(email)

\* C13, amended: validateEmail accepts exactly the strings of the shape local@domain
\* with no whitespace and a single '@' whose domain holds a '.' that is neither its
\* first nor its last character; the four named addresses fare as claimed.
C13_AcceptsExactlyDottedDomain ==
    validation.done =>
        /\ validation.accepted <=>
              (C13_LocalAtDomain(validation.email) /\ C13_DottedDomain(validation.email))
        /\ C13_NamedAddresses

\* C13's case: an address of the shape local@domain was rejected for its domain
\* without a '.'.
C13_Witness ==
    /\ validation.done
    /\ validation.email = <<"u", "@", "u">>
    /\ ~validation.accepted

-----------------------------------------------------------------------------
(* Properties of encodeEmailHeader, checked under SpecHeader *)

\* The six bits a base64 character stands for.
C14_Value(c) ==
    IF c >= 65 /\ c <= 90 THEN c - 65
    ELSE IF c >= 97 /\ c <= 122 THEN c - 97 + 26
    ELSE IF c >= 48 /\ c <= 57 THEN c - 48 + 52
    ELSE IF c = 43 THEN 62 ELSE 63

RECURSIVE C14_Decode(_)
\* The bytes a padded base64 text stands for.
C14_Decode(cs) ==
    IF Len(cs) < 4 THEN <<>>
    ELSE LET a == C14_Value(cs[1])
             b == C14_Value(cs[2])
             c == C14_Value(cs[3])
             d == C14_Value(cs[4])
             first  == <<a * 4 + (b \div 16)>>
             second == IF cs[3] = 61 THEN <<>> ELSE <<(b % 16) * 16 + (c \div 4)>>
             third  == IF cs[4] = 61 THEN <<>> ELSE <<(c % 4) * 64 + d>>
         IN  first \o second \o third \o C14_Decode(SubSeq(cs, 5, Len(cs)))

\* out is '=?UTF-8?B?' + payload + '?=' with a payload that is base64, four
\* characters to every three bytes begun, and stands for the UTF-8 bytes of the text
C14_EncodedWord(text, out) ==
    /\ Len(out) >= Len(EncodedWordStart) + Len(EncodedWordEnd)
    /\ SubSeq(out, 1, Len(EncodedWordStart)) = EncodedWordStart
    /\ SubSeq(out, Len(out) - 1, Len(out)) = EncodedWordEnd
    /\ LET payload == SubSeq(out, Len(EncodedWordStart) + 1, Len(out) - 2)
       IN  /\ Len(payload) = 4 * ((Len(Utf8Bytes(text)) + 2) \div 3)
           /\ \A i \in 1..Len(payload) :
                 \/ payload[i] \in (65..90) \cup (97..122) \cup (48..57) \cup {43, 47}
                 \/ payload[i] = 61 /\ i > Len(payload) - 2
           /\ C14_Decode(payload) = Utf8Bytes(text)

\* '=?UTF-8?B?Q2Fmw6k=?='
C14_CafeEncoded ==
    EncodedWordStart \o <<81, 50, 70, 109, 119, 54, 107, 61>> \o EncodedWordEnd

\* C14: the subject is emitted as '=?UTF-8?B?<base64 of its UTF-8 bytes>?=' if and
\* only if it holds a non-ASCII character, and verbatim otherwise; 'Hello' stays
\* 'Hello' and 'Café' becomes '=?UTF-8?B?Q2Fmw6k=?='.
C14_EncodedIffNonAscii ==
    header.done =>
        /\ (\E i \in 1..Len(header.text) : header.text[i] > 127)
              => C14_EncodedWord(header.text, header.out)
        /\ (\A i \in 1..Len(header.text) : header.text[i] <= 127)
              => header.out = header.text
        /\ header.text = Hello => header.out = Hello
        /\ header.text = Cafe => header.out = C14_CafeEncoded

\* C14's case: a subject of three characters, 'H', the euro sign and DEL, was encoded.
C14_Witness ==
    /\ header.done
    /\ header.text = <<72, 8364, 127>>
    /\ header.out # header.text
    /\ C14_EncodedWord(header.text, header.out)

-----------------------------------------------------------------------------
(* Properties of createEmailMessage, checked under SpecMessage *)

\* The index of the first empty piece of a sequence, one past its end when it has none:
\* where a header section stops.
C15_HeaderEnd(pieces) ==
    IF \E i \in 1..Len(pieces) : pieces[i] = ""
    THEN CHOOSE i \in 1..Len(pieces) :
            pieces[i] = "" /\ \A j \in 1..(i - 1) : pieces[j] # ""
    ELSE Len(pieces) + 1

\* The header lines of a message or of a body part
C15_Headers(pieces) == {pieces[i] : i \in 1..(C15_HeaderEnd(pieces) - 1)}

\* The boundaries the Content-Type header of the message declares
C15_Declared(pieces) ==
    {b \in {Boundary(r) : r \in RandomDigits} :
        ("Content-Type: multipart/alternative; boundary=\"" \o b \o "\"")
            \in C15_Headers(pieces)}

\* After the headers the pieces are: the delimiter '--b', a part, the delimiter
\* again, a second part, and the terminating delimiter '--b--' as the last piece;
\* the first part is headed text/plain and 7bit, the second text/html and 7bit.
C15_TwoParts(pieces, b) ==
    LET n == Len(pieces)
        h == C15_HeaderEnd(pieces)
        opening == {i \in (h + 1)..n : pieces[i] = "--" \o b}
        closing == {i \in (h + 1)..n : pieces[i] = "--" \o b \o "--"}
    IN  /\ Cardinality(opening) = 2
        /\ closing = {n}
        /\ h + 1 \in opening
        /\ LET second == CHOOSE i \in opening : i # h + 1
               plain == SubSeq(pieces, h + 2, second - 1)
               html  == SubSeq(pieces, second + 1, n - 1)
           IN  /\ "Content-Type: text/plain; charset=UTF-8" \in C15_Headers(plain)
               /\ "Content-Transfer-Encoding: 7bit" \in C15_Headers(plain)
               /\ "Content-Type: text/html; charset=UTF-8" \notin C15_Headers(plain)
               /\ "Content-Type: text/html; charset=UTF-8" \in C15_Headers(html)
               /\ "Content-Transfer-Encoding: 7bit" \in C15_Headers(html)
               /\ "Content-Type: text/plain; charset=UTF-8" \notin C15_Headers(html)

\* C15: a multipart/alternative message declares one boundary in its Content-Type
\* header and holds, after the headers, exactly two body parts, a text/plain part and
\* then a text/html part, each introduced by the delimiter line of that boundary and
\* each marked 7bit, and it ends with the terminating delimiter.
C15_MultipartHasTwoParts ==
    (message.done /\ ~message.threw /\ message.multipart) =>
        /\ Cardinality(C15_Declared(message.pieces)) = 1
        /\ \A b \in C15_Declared(message.pieces) : C15_TwoParts(message.pieces, b)

\* C15's case: a message was built from the plain body 'Hi' and the HTML body
\* '<b>Hi</b>' with no explicit content type, and it ends with the terminating delimiter.
C15_Witness ==
    /\ message.done /\ ~message.threw /\ message.multipart
    /\ message.mimeType = Undef
    /\ message.body = "Hi" /\ message.htmlBody = "<b>Hi</b>"
    /\ message.random # ""
    /\ message.pieces[Len(message.pieces)] = "--" \o Boundary(message.random) \o "--"
    /\ C15_Declared(message.pieces) = {Boundary(message.random)}

\* The content types whose Content-Type line stands among the headers of the message
C20_Emitted(pieces) ==
    {t \in {MimePlain, MimeHtml} :
        ("Content-Type: " \o t \o "; charset=UTF-8") \in C15_Headers(pieces)}
    \cup (IF C15_Declared(pieces) # {} THEN {MimeMultipart} ELSE {})

\* A body is present when it is given and not empty
C20_Present(text) == text # Undef /\ text # ""

\* C20: the content type of the message is the explicit mimeType when one is given;
\* otherwise multipart/alternative when a plain and an HTML body are both present;
\* otherwise text/html when an HTML body is present; otherwise text/plain.
C20_ContentTypeSelection ==
    (message.done /\ ~message.threw) =>
        C20_Emitted(message.pieces) =
            { IF message.mimeType # Undef THEN message.mimeType
              ELSE IF C20_Present(message.body) /\ C20_Present(message.htmlBody)
              THEN MimeMultipart
              ELSE IF C20_Present(message.htmlBody) THEN MimeHtml
              ELSE MimePlain }

\* C20's case: both bodies are present and text/plain is asked for: the message is
\* text/plain.
C20_Witness ==
    /\ message.done /\ ~message.threw
    /\ message.mimeType = MimePlain
    /\ message.body = "Hi" /\ message.htmlBody = "<b>Hi</b>"
    /\ C20_Emitted(message.pieces) = {MimePlain}

-----------------------------------------------------------------------------
(* Properties of the call relay wrapper, checked under SpecRelay *)

\* C16: however the invocations of make_call and get_conversation interleave, at
\* most one remote client is created and connected, and every invocation that
\* reaches the remote server does so with that one client.
C16_ClientCreatedOnce ==
    /\ relay.created <= 1
    /\ \A i, j \in Invocations :
          (relay.inv[i].reached /\ relay.inv[j].reached) =>
              relay.inv[i].client = relay.inv[j].client

-----------------------------------------------------------------------------
(* Properties of the tool handlers, checked under SpecHandler *)

\* C17: in every tool handler, when the resolver returns an error the handler
\* returns that error text as its single text block and no request goes to the
\* provider in that invocation; the resolver itself sends nothing.
C17_ResolverErrorReturned ==
    /\ handler.result.kind = "error" =>
          /\ handler.pc = "returned"
          /\ Len(handler.content) = 1
          /\ handler.content[1].type = "text"
          /\ handler.content[1].text = handler.result.error
          /\ handler.requests = 0
    /\ handler.pc \in {"calling", "thrown"} => handler.requests = 0

\* C17's case: send_email was invoked with a context that is not valid and carries
\* an authorization URL, and replied with the resolver's text, which ends in that URL.
C17_Witness ==
    /\ handler.pc = "returned"
    /\ handler.server = "gmail" /\ handler.tool = "send_email"
    /\ handler.result.kind = "error"
    /\ handler.result.authUrl # Undef
    /\ handler.content = <<[type |-> "text",
                            text |-> <<MsgVisitUrl("Gmail"), handler.result.authUrl>>]>>
    /\ handler.requests = 0

-----------------------------------------------------------------------------
(* Properties of the methods that validate their arguments, checked under Spec *)

\* The addresses of a request in the order to, cc, bcc, each with the word the
\* error text uses for its list
C18_Addresses(args) ==
    [i \in 1..Len(args.to) |-> [list |-> "Recipient", email |-> args.to[i]]]
    \o (IF args.cc.has
        THEN [i \in 1..Len(args.cc.list) |-> [list |-> "CC", email |-> args.cc.list[i]]]
        ELSE <<>>)
    \o (IF args.bcc.has
        THEN [i \in 1..Len(args.bcc.list) |-> [list |-> "BCC", email |-> args.bcc.list[i]]]
        ELSE <<>>)

\* The addresses among them that fail validation
C18_Offending(args) == SelectSeq(C18_Addresses(args), LAMBDA a : ~validateEmail(a.email))

\* C18: when an address of to, cc or bcc fails validation, sendEmail returns
\* success=false with an error naming the first such address in the order to, cc,
\* bcc, and users.messages.send is not called in that invocation.
C18_FailsFastOnBadAddress ==
    (outcome = "returned" /\ call.op = "sendEmail" /\ C18_Offending(call.args) # <<>>) =>
        LET first == Head(C18_Offending(call.args))
        IN  /\ ~env.success
            /\ env.error = first.list \o " email address is invalid: " \o Str(first.email)
            /\ \A i \in 1..Len(sent) : sent[i].req # "gmail.users.messages.send"

\* C18's case: the recipient is valid and both the copy and the blind copy are not:
\* the error names the copy.
C18_Witness ==
    /\ outcome = "returned" /\ call.op = "sendEmail"
    /\ call.args.to = <<UserAtExample>>
    /\ call.args.cc = Given(<<AtExample>>)
    /\ call.args.bcc = Given(<<AtExample>>)
    /\ ~env.success
    /\ env.error = "CC email address is invalid: @example.com"
    /\ \A i \in 1..Len(sent) : sent[i].req # "gmail.users.messages.send"

\* The invocations whose arguments the method itself rejects
C19_RejectedLocally ==
    \/ call.op = "sendEmail" /\ C18_Offending(call.args) # <<>>
    \/ call.op = "getOrderInfo" /\ ~Truthy(call.args.order_id)
                                /\ ~Truthy(call.args.order_number)
    \/ call.op = "modifyEmail" /\ call.args.addLabelIds = <<>>
                               /\ call.args.removeLabelIds = <<>>
    \/ call.op = "shareFile" /\ call.args.type \in {"user", "group"}
                             /\ ~Truthy(call.args.emailAddress)
    \/ call.op = "shareFile" /\ call.args.type = "domain" /\ ~Truthy(call.args.domain)

\* C19 as claimed: an invocation whose arguments the method itself rejects returns
\* its error without any request to the provider having been sent.
C19_NoRequestBeforeLocalError ==
    (outcome = "returned" /\ C19_RejectedLocally) => (~env.success /\ sent = <<>>)

-----------------------------------------------------------------------------
(* Properties of the send_email tool and of the message it builds, checked under
   SpecMessage *)

\* C21 as claimed: a send_email call that supplies a body and an HTML body and no
\* mimeType gives a multipart/alternative message that holds both bodies.
C21_BothBodiesGiveMultipart ==
    (message.done /\ ~message.threw /\ message.via = "tool"
     /\ message.supplied = Undef
     /\ C20_Present(message.body) /\ C20_Present(message.htmlBody)) =>
        /\ C20_Emitted(message.pieces) = {MimeMultipart}
        /\ \E i \in 1..Len(message.pieces) : message.pieces[i] = message.body
        /\ \E i \in 1..Len(message.pieces) : message.pieces[i] = message.htmlBody


\* The header lines C22 expects for a request, in their order
C22_Expected(request) ==
    <<"From: me", "To: " \o JoinComma(request.to)>>
    \o (IF request.cc.has /\ request.cc.list # <<>>
        THEN <<"Cc: " \o JoinComma(request.cc.list)>> ELSE <<>>)
    \o (IF request.bcc.has /\ request.bcc.list # <<>>
        THEN <<"Bcc: " \o JoinComma(request.bcc.list)>> ELSE <<>>)
    \o <<"Subject: " \o Text(encodeEmailHeader(request.subject))>>
    \o (IF request.inReplyTo # Undef
        THEN <<"In-Reply-To: " \o request.inReplyTo, "References: " \o request.inReplyTo>>
        ELSE <<>>)
    \o <<"MIME-Version: 1.0">>

\* C22 as claimed: the headers are From, To, Cc, Bcc, Subject, In-Reply-To,
\* References, MIME-Version in this order, Cc and Bcc exactly when a non-empty list is
\* supplied, In-Reply-To and References exactly when inReplyTo is supplied and with
\* the same value, and no header has an empty value.
C22_HeaderOrder ==
    (message.done /\ ~message.threw) =>
        LET expected == C22_Expected(message.request)
            n == Len(expected)
        IN  /\ Len(message.pieces) > n
            /\ SubSeq(message.pieces, 1, n) = expected
            /\ C20_Emitted(SubSeq(message.pieces, n + 1, Len(message.pieces))) # {}
            /\ \A i \in 1..n :
                  message.pieces[i] \notin {"To: ", "Cc: ", "Bcc: ", "Subject: ",
                                            "In-Reply-To: ", "References: "}


\* The lines of a body part after its headers, without the empty line that closes it
C23_Content(part) == SubSeq(part, C15_HeaderEnd(part) + 1, Len(part) - 1)

\* The text/plain and the text/html part of a multipart message, as C15 finds them
C23_Parts(pieces) ==
    LET b == CHOOSE b \in C15_Declared(pieces) : TRUE
        n == Len(pieces)
        h == C15_HeaderEnd(pieces)
        second == CHOOSE i \in (h + 2)..n : pieces[i] = "--" \o b
    IN  [plain |-> C23_Content(SubSeq(pieces, h + 2, second - 1)),
         html  |-> C23_Content(SubSeq(pieces, second + 1, n - 1))]

\* C23 as claimed: in a multipart/alternative message built from an HTML body and no
\* plain body, the text/plain part carries the HTML content.
C23_PlainFallsBackToHtml ==
    (message.done /\ ~message.threw /\ message.multipart
     /\ C20_Present(message.htmlBody) /\ ~C20_Present(message.body)) =>
        C23_Parts(message.pieces).plain = <<message.htmlBody>>

\* C23, amended: in a multipart/alternative message the text/plain part carries the
\* plain body as it was given, empty when it is empty, and the text/html part carries
\* the HTML body, or the plain body as its fallback when no HTML body is present.
C23_HtmlFallsBackToPlain ==
    (message.done /\ ~message.threw /\ message.multipart) =>
        /\ C23_Parts(message.pieces).plain = <<message.body>>
        /\ C23_Parts(message.pieces).html =
              <<IF C20_Present(message.htmlBody) THEN message.htmlBody ELSE message.body>>

\* C23's case: multipart/alternative was asked for with the plain body 'Hi' and no
\* HTML body: both parts carry 'Hi'.
C23_Witness ==
    /\ message.done /\ ~message.threw /\ message.multipart
    /\ message.mimeType = MimeMultipart
    /\ message.body = "Hi" /\ message.htmlBody = Undef
    /\ C23_Parts(message.pieces) = [plain |-> <<"Hi">>, html |-> <<"Hi">>]

-----------------------------------------------------------------------------
(* Properties of the raw value, checked under SpecRaw *)

\* The six bits a base64url character stands for.
C24_Value(c) ==
    IF c >= 65 /\ c <= 90 THEN c - 65
    ELSE IF c >= 97 /\ c <= 122 THEN c - 97 + 26
    ELSE IF c >= 48 /\ c <= 57 THEN c - 48 + 52
    ELSE IF c = 45 THEN 62 ELSE 63

RECURSIVE C24_Decode(_)
\* The bytes a base64url text without padding stands for.
C24_Decode(cs) ==
    IF Len(cs) < 2 THEN <<>>
    ELSE LET a == C24_Value(cs[1])
             b == C24_Value(cs[2])
             first == <<a * 4 + (b \div 16)>>
         IN  IF Len(cs) = 2 THEN first
             ELSE LET c == C24_Value(cs[3])
                      second == <<(b % 16) * 16 + (c \div 4)>>
                  IN  IF Len(cs) = 3 THEN first \o second
                      ELSE first \o second \o <<(c % 4) * 64 + C24_Value(cs[4])>>
                           \o C24_Decode(SubSeq(cs, 5, Len(cs)))

RECURSIVE C24_Joined(_, _)
\* The bytes of the lines from the i-th on, a CR and an LF between two lines
C24_Joined(lines, i) ==
    IF i > Len(lines) THEN <<>>
    ELSE Utf8Bytes(lines[i])
         \o (IF i < Len(lines) THEN <<13, 10>> ELSE <<>>)
         \o C24_Joined(lines, i + 1)

\* C24: the raw value is made of letters, digits, '-' and '_' only, so it holds no
\* '+', '/' or '=', and decoding it as base64url gives the lines of the message
\* joined by CRLF.
C24_RawIsBase64Url ==
    raw.done =>
        /\ \A i \in 1..Len(raw.value) :
              raw.value[i] \in (65..90) \cup (97..122) \cup (48..57) \cup {45, 95}
        /\ Len(raw.value) % 4 # 1
        /\ C24_Decode(raw.value) = C24_Joined(raw.lines, 1)

\* C24's case: the one line 'é?', whose base64 is 'w6k/', was encoded as 'w6k_'.
C24_Witness ==
    /\ raw.done
    /\ raw.lines = << <<233, 63>> >>
    /\ raw.value = <<119, 54, 107, 95>>

-----------------------------------------------------------------------------
(* Further properties of listCollections, checked under Spec *)

\* C25 as claimed: listCollections returns its envelope only after both of its
\* requests have completed, whatever their outcomes: none is in flight at the return.
C25_JoinedBeforeReturning ==
    (outcome = "returned" /\ call.op = "listCollections") => inflight = {}

\* C26 as claimed: the list that listCollections returns is not longer than limit.
C26_AtMostLimit ==
    (outcome = "returned" /\ call.op = "listCollections" /\ env.success) =>
        Len(env.data) <= call.args.limit


-----------------------------------------------------------------------------
(* C27: the transports of the call relay *)

\* The connect over SSE is attempted exactly when the connect over streamable HTTP
\* has failed
C27_SseIffHttpFailed ==
    \A i \in Invocations :
       /\ relay.inv[i].sse # "none" => relay.inv[i].http = "failed"
       /\ relay.inv[i].pc = "fallback" => relay.inv[i].http = "failed"
       /\ (relay.inv[i].http = "failed" /\ relay.inv[i].pc # "fallback")
             => relay.inv[i].sse # "none"

\* When both connects fail the invocation ends with the failure text of its tool,
\* without a client and without having reached the remote server
C27_BothFailed ==
    \A i \in Invocations :
       (relay.inv[i].http = "failed" /\ relay.inv[i].sse = "failed")
          => /\ relay.inv[i].pc = "done"
             /\ relay.inv[i].returned = FailedText(relay.inv[i].tool)
             /\ relay.inv[i].client = NoClient
             /\ ~relay.inv[i].reached

\* The cached client is one whose connect succeeded: as many clients were made as
\* connects succeeded, and remoteClient is null while none did
C27_OnlyConnectedCached ==
    /\ relay.created =
         Cardinality({i \in Invocations :
                         relay.inv[i].http = "ok" \/ relay.inv[i].sse = "ok"})
    /\ relay.remoteClient = NoClient <=> relay.created = 0
    /\ relay.remoteClient \in 0..relay.created

\* What holds of the connects in every state
C27_Connects ==
    /\ C27_SseIffHttpFailed
    /\ C27_BothFailed
    /\ C27_OnlyConnectedCached
    /\ \A i \in Invocations :
          (relay.inv[i].pc \in {"connecting", "fallback"} \/ relay.inv[i].http = "ok"
             \/ relay.inv[i].sse # "none")
          => relay.inv[i].client \in {NoClient} \cup 1..relay.created

\* An invocation that starts while no client is cached connects, over streamable
\* HTTP
C27_ConnectsAgain ==
    [][\A i \in Invocations :
          (relay.inv[i].pc = "idle" /\ relay'.inv[i].pc # "idle"
              /\ relay.remoteClient = NoClient)
          => (relay'.inv[i].pc = "connecting" /\ relay'.calls = relay.calls + 1)]_vars

\* C27: a relay invocation connects over streamable HTTP first and over SSE exactly
\* when that connect failed; when both fail it returns the failure text of its tool
\* and no client is cached, and the next invocation connects again.
C27_StreamableThenSse == []C27_Connects /\ C27_ConnectsAgain

\* Both connects of the first invocation failed, and the second one, finding no
\* client cached, made its own connects and got through over SSE
C27_Witness ==
    /\ relay.inv[1].http = "failed" /\ relay.inv[1].sse = "failed"
    /\ relay.inv[1].returned = "Failed to get conversation"
    /\ relay.inv[2].http = "failed" /\ relay.inv[2].sse = "ok"
    /\ relay.inv[2].pc = "calling"
    /\ relay.calls = 2 /\ relay.remoteClient = 1


-----------------------------------------------------------------------------
(* C28: the post of make_call to the conversation API *)

\* A post is issued at most once, after callTool returned, by make_call, and for a
\* first text block that parses to a truthy success and data
C28_PostOnlyOnSuccess ==
    \A i \in Invocations :
       /\ relay.inv[i].posts <= 1
       /\ relay.inv[i].post # "none" => relay.inv[i].posts = 1
       /\ relay.inv[i].posts > 0
            => /\ relay.inv[i].tool = "make_call"
               /\ relay.inv[i].reached
               /\ relay.inv[i].content = "JSON, success and data"

\* C28: make_call returns the content the remote tool answered, whatever that
\* content is and however the post to the conversation API ends; the post is issued
\* at most once, after the remote call returned with a first text block that parses
\* to a truthy success and data; the failure text is returned only when no client
\* could be connected or callTool rejected.
C28_ContentUnchanged ==
    /\ C28_PostOnlyOnSuccess
    /\ \A i \in Invocations :
          (relay.inv[i].tool = "make_call" /\ relay.inv[i].pc = "done")
          => /\ (relay.inv[i].reached /\ relay.inv[i].content # "rejected")
                   => relay.inv[i].returned = relay.inv[i].content
             /\ relay.inv[i].returned = "Failed to make call"
                   => (~relay.inv[i].reached \/ relay.inv[i].content = "rejected")

\* One make_call whose post failed at the network level, one whose post was
\* answered with a status that is not 2xx: both returned the remote content
C28_Witness ==
    /\ relay.inv[1].tool = "make_call" /\ relay.inv[1].pc = "done"
    /\ relay.inv[1].post = "network failure"
    /\ relay.inv[1].returned = "JSON, success and data"
    /\ relay.inv[2].tool = "make_call" /\ relay.inv[2].pc = "done"
    /\ relay.inv[2].post = "not ok"
    /\ relay.inv[2].returned = "JSON, success and data"


-----------------------------------------------------------------------------
(* C29: no compensating requests *)

\* The requests that undo an earlier mutation, and the operations that are that
\* undoing
C29_UndoRequests == {"drive.files.delete", "POST fulfillments/{id}/cancel.json"}

C29_UndoOperations == {"deleteFile", "cancelFulfillment"}

\* createDocument got the new document's identifier from the creation
C29_Created ==
    /\ outcome = "returned"
    /\ call.op = "createDocument"
    /\ Len(call.results) >= 1
    /\ call.results[1].kind = "ok"
    /\ HasId(call.results[1])

\* C29: an operation sends a request that undoes a mutation only when the undoing
\* is the operation itself; createDocument, once the document is created, returns
\* success=true with the new document's identifier, however the insertion of the
\* content and the move to the folder end, and sends no delete request.
C29_NoCompensation ==
    outcome = "returned" =>
       /\ \A i \in 1..Len(sent) :
             sent[i].req \in C29_UndoRequests => call.op \in C29_UndoOperations
       /\ C29_Created =>
             /\ env.success
             /\ env.data = <<[id |-> call.results[1].data.id]>>
             /\ \A i \in 1..Len(sent) :
                   sent[i].req \in {"docs.documents.create", "docs.documents.batchUpdate",
                                    "drive.files.update"}

\* The document was created, the insertion of its content and its move to the
\* folder both failed, and createDocument returned success with the identifier
C29_Witness ==
    /\ C29_Created
    /\ Len(call.results) = 3
    /\ call.results[2].kind = "err"
    /\ call.results[3].kind = "err"
    /\ env.success
    /\ env.data = <<[id |-> call.results[1].data.id]>>
    /\ sent[Len(sent)].req = "drive.files.update"


-----------------------------------------------------------------------------
(* C30: the order of the calls in the standalone Gmail server *)

C30_Count(calls, name) == Cardinality({k \in 1..Len(calls) : calls[k] = name})

\* The invocation called the service operation of its tool: it did so last, after
\* getValidToken returned valid with an access token, the service was made, and
\* validateConnection returned true
C30_OperationLast(c) ==
    C30_Count(c.calls, ServiceOperation(c.tool)) > 0 =>
       /\ c.calls = <<"getValidToken", "new GmailService", "validateConnection",
                      ServiceOperation(c.tool)>>
       /\ c.token.valid
       /\ Truthy(c.token.accessToken)
       /\ c.isConnected

\* getValidToken returned a token that is not valid: requestAuthorization is called
\* once, no service is made, and the reply carries the URL or the text that none
\* could be generated
C30_NotValid(c) ==
    (c.pc \notin {"idle", "getValidToken"} /\ ~c.token.valid) =>
       /\ c.calls = <<"getValidToken", "requestAuthorization">>
       /\ C30_Count(c.calls, "requestAuthorization") = 1
       /\ C30_Count(c.calls, "new GmailService") = 0
       /\ c.pc \in {"requestAuthorization", "done"}
       /\ c.pc = "done" =>
            c.reply \in {AuthorizationText(u) : u \in AuthUrls \ {Undef, ""}}
                        \cup {"Authentication required. Please visit this URL to authorize Gmail access: Unable to generate authorization URL"}

\* C30: gmail_send_email and gmail_search_people call the service operation only
\* after getValidToken returned valid=true with an access token and
\* validateConnection returned true, in that order; when the token is not valid
\* requestAuthorization is called exactly once, no GmailService is made, and the
\* reply carries the authorization URL or 'Unable to generate authorization URL'.
C30_AuthorizedBeforeOperation ==
    \A i \in GmailCalls :
       /\ C30_OperationLast(standalone[i])
       /\ C30_NotValid(standalone[i])
       /\ C30_Count(standalone[i].calls, "requestAuthorization") > 0
             => ~standalone[i].token.valid
       /\ C30_Count(standalone[i].calls, "new GmailService") > 0
             => (standalone[i].token.valid /\ Truthy(standalone[i].token.accessToken))

\* One invocation sent its email after the token and the connection were found
\* good, the other found the token not valid and replied that no authorization URL
\* could be generated
C30_Witness ==
    /\ standalone[1].tool = "gmail_send_email"
    /\ standalone[1].pc = "done"
    /\ standalone[1].calls = <<"getValidToken", "new GmailService", "validateConnection",
                               "sendEmail">>
    /\ standalone[2].tool = "gmail_search_people"
    /\ standalone[2].pc = "done"
    /\ ~standalone[2].token.valid
    /\ standalone[2].calls = <<"getValidToken", "requestAuthorization">>
    /\ standalone[2].reply = AuthorizationText(Undef)

====
